---- MODULE Spec2Model ----
(***************************************************************************)
(* GraffitiMap wordlist engine: combination generator, fuzzing generator   *)
(* and deduplicator, modelled from src/core/*.py.                          *)
(*                                                                         *)
(* A Python str is a sequence of one-character strings; a Python list is a *)
(* sequence; a Python set is a set, and list(set) is any enumeration of    *)
(* it. Every public method is one action that records the call and its     *)
(* result in the variable call; the words table of the database is db.     *)
(***************************************************************************)
EXTENDS Integers, Sequences, FiniteSets, Bags, TLC

VARIABLES db, call

vars == <<db, call>>

(***************************************************************************)
(* Python str and list primitives                                          *)
(***************************************************************************)

Range(f) == {f[i] : i \in DOMAIN f}

Max2(a, b) == IF a >= b THEN a ELSE b

Min2(a, b) == IF a <= b THEN a ELSE b

\* every list that enumerates the finite set S once: list(S)
Orders(S) == {p \in [1..Cardinality(S) -> S] : Range(p) = S}

\* sep.join(parts)
RECURSIVE Join(_, _)
Join(parts, sep) ==
  IF Len(parts) = 0 THEN <<>>
  ELSE IF Len(parts) = 1 THEN parts[1]
  ELSE parts[1] \o sep \o Join(Tail(parts), sep)

\* str.find(c) + 1 for a one-character c: 0 when absent
IndexOf(s, c) ==
  IF \E i \in 1..Len(s) : s[i] = c
  THEN CHOOSE i \in 1..Len(s) : s[i] = c /\ \A j \in 1..(i - 1) : s[j] # c
  ELSE 0

\* s.split(c) for a one-character separator
RECURSIVE Split(_, _)
Split(s, c) ==
  LET i == IndexOf(s, c)
  IN IF i = 0 THEN <<s>>
     ELSE <<SubSeq(s, 1, i - 1)>> \o Split(SubSeq(s, i + 1, Len(s)), c)

\* s.lstrip(chars)
RECURSIVE LStrip(_, _)
LStrip(s, chars) ==
  IF Len(s) > 0 /\ s[1] \in chars THEN LStrip(Tail(s), chars) ELSE s

\* s.rstrip(chars)
RECURSIVE RStrip(_, _)
RStrip(s, chars) ==
  IF Len(s) > 0 /\ s[Len(s)] \in chars
  THEN RStrip(SubSeq(s, 1, Len(s) - 1), chars) ELSE s

\* s.strip(chars)
Strip(s, chars) == RStrip(LStrip(s, chars), chars)

\* the characters str.strip() removes when called without argument
Whitespace == {" ", "\n", "\t", "\r"}

\* s.startswith(p)
StartsWith(s, p) == Len(p) <= Len(s) /\ SubSeq(s, 1, Len(p)) = p

\* sub in s
Contains(s, sub) ==
  \E i \in 1..(Len(s) - Len(sub) + 1) : SubSeq(s, i, i + Len(sub) - 1) = sub

\* s.replace(old, new): leftmost non-overlapping occurrences; an empty old
\* matches before every character and at the end
RECURSIVE ReplaceAll(_, _, _)
ReplaceAll(s, old, new) ==
  IF Len(old) = 0
  THEN IF Len(s) = 0 THEN new
       ELSE new \o <<s[1]>> \o ReplaceAll(Tail(s), old, new)
  ELSE IF Len(s) < Len(old) THEN s
  ELSE IF SubSeq(s, 1, Len(old)) = old
       THEN new \o ReplaceAll(SubSeq(s, Len(old) + 1, Len(s)), old, new)
       ELSE <<s[1]>> \o ReplaceAll(Tail(s), old, new)

\* [x for x in xs if keep] for a list of strings
RECURSIVE NonEmptyOnly(_)
NonEmptyOnly(xs) ==
  IF Len(xs) = 0 THEN <<>>
  ELSE IF Len(xs[1]) > 0 THEN <<xs[1]>> \o NonEmptyOnly(Tail(xs))
  ELSE NonEmptyOnly(Tail(xs))

\* the list xs with position i (1-based) set to v
SetAt(xs, i, v) == [xs EXCEPT ![i] = v]

\* the list xs with v inserted before position i (1-based)
InsertAt(xs, i, v) == SubSeq(xs, 1, i - 1) \o <<v>> \o SubSeq(xs, i, Len(xs))

\* the list xs with positions i and j exchanged
SwapAt(xs, i, j) == [xs EXCEPT ![i] = xs[j], ![j] = xs[i]]

Digits == <<"0", "1", "2", "3", "4", "5", "6", "7", "8", "9">>

DigitSet == Range(Digits)

\* str(n) for n >= 0
RECURSIVE NatStr(_)
NatStr(n) == IF n < 10 THEN <<Digits[n + 1]>>
             ELSE NatStr(n \div 10) \o <<Digits[(n % 10) + 1]>>

\* str(n)
IntStr(n) == IF n < 0 THEN <<"-">> \o NatStr(0 - n) ELSE NatStr(n)

\* w zeros
RECURSIVE Zeros(_)
Zeros(w) == IF w <= 0 THEN <<>> ELSE <<"0">> \o Zeros(w - 1)

\* '{:0Wd}'.format(n): sign first, then zeros up to the total width W;
\* W = 0 stands for '{:d}'
FormatInt(n, width) ==
  LET sign == IF n < 0 THEN <<"-">> ELSE <<>>
      body == NatStr(IF n < 0 THEN 0 - n ELSE n)
  IN sign \o Zeros(width - Len(sign) - Len(body)) \o body

\* the printable ASCII characters in code order: chr(32) .. chr(95), and
\* chr(97) .. chr(126) (the grave accent, chr(96), occurs in no string here)
AsciiLow == <<
  " ", "!", "\"", "#", "$", "%", "&", "'", "(", ")", "*", "+",
  ",", "-", ".", "/", "0", "1", "2", "3", "4", "5", "6", "7",
  "8", "9", ":", ";", "<", "=", ">", "?", "@", "A", "B", "C",
  "D", "E", "F", "G", "H", "I", "J", "K", "L", "M", "N", "O",
  "P", "Q", "R", "S", "T", "U", "V", "W", "X", "Y", "Z", "[",
  "\\", "]", "^", "_" >>

AsciiHigh == <<
  "a", "b", "c", "d", "e", "f", "g", "h", "i", "j", "k", "l", "m", "n", "o", "p", "q", "r", "s",
  "t", "u", "v", "w", "x", "y", "z", "{", "|", "}", "~" >>

\* ord(c)
Ord(c) == IF c = "\n" THEN 10 ELSE IF c = "\t" THEN 9 ELSE IF c = "\r" THEN 13
          ELSE IF IndexOf(AsciiLow, c) > 0 THEN 31 + IndexOf(AsciiLow, c)
          ELSE 96 + IndexOf(AsciiHigh, c)

\* a < b for str (code-point order, as SQLite's BINARY collation)
RECURSIVE StrLess(_, _)
StrLess(a, b) ==
  IF Len(b) = 0 THEN FALSE
  ELSE IF Len(a) = 0 THEN TRUE
  ELSE IF a[1] = b[1] THEN StrLess(Tail(a), Tail(b))
  ELSE Ord(a[1]) < Ord(b[1])

\* sorted(S) for a finite set of strings
RECURSIVE SortedList(_)
SortedList(S) ==
  IF S = {} THEN <<>>
  ELSE LET m == CHOOSE x \in S : \A y \in S \ {x} : StrLess(x, y)
       IN <<m>> \o SortedList(S \ {m})

\* the concatenation of a list of lists
RECURSIVE ConcatAll(_)
ConcatAll(ls) == IF Len(ls) = 0 THEN <<>> ELSE ls[1] \o ConcatAll(Tail(ls))

\* x in xs for a list xs
InList(x, xs) == \E i \in 1..Len(xs) : xs[i] = x

(***************************************************************************)
(* Database: the words table (src/core/database.py) as the list of its     *)
(* rows in rowid order, and the number of dictionaries created so far      *)
(***************************************************************************)

\* DictionaryManager.add_words for one dictionary and a list of words: the
\* dictionary must exist; blank words are dropped, the others are stripped
\* and inserted with the next AUTOINCREMENT ids
RECURSIVE InsertWords(_, _, _)
InsertWords(rows, dictionary_id, words) ==
  IF Len(words) = 0 THEN rows
  ELSE LET w == Strip(words[1], Whitespace)
       IN IF Len(w) = 0 THEN InsertWords(rows, dictionary_id, Tail(words))
          ELSE InsertWords(
                 Append(rows, [id |-> Len(rows) + 1, word |-> w,
                               dictionary_id |-> dictionary_id]),
                 dictionary_id, Tail(words))

(***************************************************************************)
(* CombinationGenerator (src/core/combination_generator.py)                *)
(***************************************************************************)

IsLeap(y) == (y % 4 = 0 /\ y % 100 # 0) \/ y % 400 = 0

DaysInMonth(y, m) ==
  IF m = 2 THEN (IF IsLeap(y) THEN 29 ELSE 28)
  ELSE IF m \in {4, 6, 9, 11} THEN 30 ELSE 31

\* the last two characters of s: s[-2:]
LastTwo(s) == SubSeq(s, Max2(1, Len(s) - 1), Len(s))

\* every date of year y as strftime("%Y%m%d")
DatesOfYear(y) ==
  ConcatAll([m \in 1..12 |->
    [d \in 1..DaysInMonth(y, m) |->
       FormatInt(y, 4) \o FormatInt(m, 2) \o FormatInt(d, 2)]])

\* the year datetime(2000, month, day) validates MMDD pairs against
MMDDReferenceYear == 2000

generate_date_range(start_year, end_year, date_format) ==
  LET n == Max2(0, end_year - start_year + 1)
  IN IF date_format = "YYYY"
     THEN [i \in 1..n |-> IntStr(start_year + i - 1)]
     ELSE IF date_format = "YY"
     THEN [i \in 1..n |-> LastTwo(IntStr(start_year + i - 1))]
     ELSE IF date_format = "MM"
     THEN [m \in 1..12 |-> FormatInt(m, 2)]
     ELSE IF date_format = "DD"
     THEN [d \in 1..31 |-> FormatInt(d, 2)]
     ELSE IF date_format = "YYYYMMDD"
     THEN ConcatAll([i \in 1..n |-> DatesOfYear(start_year + i - 1)])
     ELSE IF date_format = "MMDD"
     THEN ConcatAll([m \in 1..12 |->
            [d \in 1..DaysInMonth(MMDDReferenceYear, m) |->
               FormatInt(m, 2) \o FormatInt(d, 2)]])
     ELSE <<>>

\* the sequence over range(start, end) in place of range(start, end + 1)
generate_number_sequence_without_end(start, end, width) ==
  [i \in 1..Max2(0, end - start) |-> FormatInt(start + i - 1, width)]

\* format_str is '{:d}' (width 0) or '{:0Wd}' (width W)
generate_number_sequence(start, end, width) ==
  [i \in 1..Max2(0, end - start + 1) |-> FormatInt(start + i - 1, width)]

\* one line of the custom input: its items
ParseLine(line) ==
  LET l == Strip(line, Whitespace)
  IN IF Len(l) = 0 THEN <<>>
     ELSE IF InList(",", l)
     THEN LET parts == Split(l, ",")
          IN NonEmptyOnly([i \in 1..Len(parts) |-> Strip(parts[i], Whitespace)])
     ELSE <<l>>

\* the items list of parse_custom_input before set(): duplicates kept
CustomItems(input_text) ==
  LET t == Strip(input_text, Whitespace)
  IN IF Len(t) = 0 THEN <<>>
     ELSE LET lines == Split(t, "\n")
          IN ConcatAll([i \in 1..Len(lines) |-> ParseLine(lines[i])])

\* parse_custom_input returns list(set(items)): every enumeration of the set
parse_custom_input(input_text) == Orders(Range(CustomItems(input_text)))

\* SELECT DISTINCT word FROM words WHERE dictionary_id IN (...) ORDER BY word
get_dictionary_words(rows, dictionary_ids) ==
  IF Len(dictionary_ids) = 0 THEN <<>>
  ELSE SortedList({rows[i].word : i \in
         {j \in 1..Len(rows) : InList(rows[j].dictionary_id, dictionary_ids)}})

\* an area configuration {'type': ..., 'data': ...}: text is the data of a
\* custom or text area, ids of a dictionary area, start/end/format of a date
\* area, start/end/width of a number area; type "absent": no such config key
Area(type, text, ids, start, end, format, width) ==
  [type |-> type, text |-> text, ids |-> ids, start |-> start, end |-> end,
   format |-> format, width |-> width]

AbsentArea == Area("absent", <<>>, <<>>, 0, 0, "", 0)

CustomArea(text) == Area("custom", text, <<>>, 0, 0, "", 0)

TextArea(text) == Area("text", text, <<>>, 0, 0, "", 0)

DictionaryArea(ids) == Area("dictionary", <<>>, ids, 0, 0, "", 0)

DateArea(start_year, end_year, format) ==
  Area("date", <<>>, <<>>, start_year, end_year, format, 0)

NumberArea(start, end, width) == Area("number", <<>>, <<>>, start, end, "", width)

\* an entry of areas_data: has = the key was assigned
NotSet == [has |-> FALSE, val |-> <<>>]

IsSet(list) == [has |-> TRUE, val |-> list]

\* lines 164-170: the possible values of areas_data['a']
AreaDataA(config) ==
  IF InList("a", config.areas_enabled) /\ config.area_a.type # "absent"
  THEN IF config.area_a.type = "custom"
       THEN {IsSet(l) : l \in parse_custom_input(config.area_a.text)}
       ELSE IF config.area_a.type = "text"
       THEN {IsSet(IF Len(config.area_a.text) > 0
                   THEN <<config.area_a.text>> ELSE <<>>)}
       ELSE {NotSet}
  ELSE {NotSet}

\* lines 172-179: the possible values of areas_data['b']
AreaDataB(config, rows) ==
  IF InList("b", config.areas_enabled) /\ config.area_b.type # "absent"
  THEN IF config.area_b.type = "dictionary"
       THEN {IsSet(get_dictionary_words(rows, config.area_b.ids))}
       ELSE IF config.area_b.type = "custom"
       THEN {IsSet(l) : l \in parse_custom_input(config.area_b.text)}
       ELSE {NotSet}
  ELSE {NotSet}

\* lines 181-199: the possible values of areas_data['c']
AreaDataC(config) ==
  IF InList("c", config.areas_enabled) /\ config.area_c.type # "absent"
  THEN IF config.area_c.type = "date"
       THEN {IsSet(generate_date_range(config.area_c.start, config.area_c.end,
                                       config.area_c.format))}
       ELSE IF config.area_c.type = "number"
       THEN {IsSet(generate_number_sequence(config.area_c.start,
                                            config.area_c.end,
                                            config.area_c.width))}
       ELSE IF config.area_c.type = "custom"
       THEN {IsSet(l) : l \in parse_custom_input(config.area_c.text)}
       ELSE {NotSet}
  ELSE {NotSet}

\* line 202: the keys of valid_areas, the areas that are set and non-empty
valid_area_keys(areas_data) ==
  {k \in DOMAIN areas_data : areas_data[k].has /\ Len(areas_data[k].val) > 0}

\* sorted(keys, reverse=True)
RECURSIVE area_keys_reversed(_)
area_keys_reversed(keys) ==
  IF keys = {} THEN <<>>
  ELSE LET m == CHOOSE x \in keys : \A y \in keys : Ord(x) >= Ord(y)
       IN <<m>> \o area_keys_reversed(keys \ {m})

\* line 209: sorted(valid_areas.keys())
RECURSIVE area_keys(_)
area_keys(keys) ==
  IF keys = {} THEN <<>>
  ELSE LET m == CHOOSE x \in keys : \A y \in keys : Ord(x) <= Ord(y)
       IN <<m>> \o area_keys(keys \ {m})

\* itertools.product(*lists): tuples in lexicographic order of positions
RECURSIVE product(_)
product(lists) ==
  IF Len(lists) = 0 THEN << <<>> >>
  ELSE LET rest == product(Tail(lists))
       IN ConcatAll([i \in 1..Len(lists[1]) |->
            [j \in 1..Len(rest) |-> <<lists[1][i]>> \o rest[j]]])

\* lines 201-216: the list of strings the generator yields for areas_data
combinations_of(areas_data, connector) ==
  LET keys == area_keys(valid_area_keys(areas_data))
      area_values == [i \in 1..Len(keys) |-> areas_data[keys[i]].val]
      tuples == product(area_values)
  IN IF Len(keys) = 0 THEN <<>>
     ELSE [i \in 1..Len(tuples) |-> Join(tuples[i], connector)]

\* generate_combinations(config): every list of strings it can yield
generate_combinations(config, rows) ==
  {combinations_of([a |-> da, b |-> db_, c |-> dc], config.connector) :
     da \in AreaDataA(config), db_ \in AreaDataB(config, rows),
     dc \in AreaDataC(config)}

\* config['area_' + key]
AreaOf(config, key) ==
  IF key = "a" THEN config.area_a
  ELSE IF key = "b" THEN config.area_b
  ELSE IF key = "c" THEN config.area_c
  ELSE AbsentArea

\* lines 361-381: area_count of one area config, whatever its key
area_count(area, rows) ==
  IF area.type = "custom" THEN Cardinality(Range(CustomItems(area.text)))
  ELSE IF area.type = "text" THEN (IF Len(area.text) > 0 THEN 1 ELSE 0)
  ELSE IF area.type = "dictionary"
  THEN Len(get_dictionary_words(rows, area.ids))
  ELSE IF area.type = "date"
  THEN Len(generate_date_range(area.start, area.end, area.format))
  ELSE IF area.type = "number" THEN area.end - area.start + 1
  ELSE 0

\* lines 356-388: the loop over areas_enabled from position i with the
\* running total_count
RECURSIVE estimate_loop(_, _, _, _)
estimate_loop(config, rows, i, total_count) ==
  IF i > Len(config.areas_enabled) THEN total_count
  ELSE LET area == AreaOf(config, config.areas_enabled[i])
       IN IF area.type = "absent"
          THEN estimate_loop(config, rows, i + 1, total_count)
          ELSE IF area_count(area, rows) > 0
          THEN estimate_loop(config, rows, i + 1,
                             total_count * area_count(area, rows))
          ELSE 0

estimate_combination_count(config, rows) == estimate_loop(config, rows, 1, 1)

(***************************************************************************)
(* Inputs of the combination generator                                     *)
(***************************************************************************)

\* words tables built by add_words: no rows; one dictionary holding two
\* words; two dictionaries sharing a word, one word stored twice
SampleTables ==
  {<<>>,
   InsertWords(<<>>, 1, <<<<"p", "a", " ">>, <<" ">>, <<"l", "o">>>>),
   InsertWords(InsertWords(<<>>, 1, <<<<"l", "o">>, <<"l", "o">>>>),
               2, <<<<"p", "a">>, <<"l", "o">>>>)}

\* "admin,user"
AdminUser == <<"a", "d", "m", "i", "n", ",", "u", "s", "e", "r">>

\* "login\npanel"
LoginPanel == <<"l", "o", "g", "i", "n", "\n", "p", "a", "n", "e", "l">>

AreaAOptions ==
  {AbsentArea, CustomArea(AdminUser), CustomArea(<<" ">>),
   TextArea(<<"x">>), DictionaryArea(<<1>>)}

AreaBOptions ==
  {AbsentArea, CustomArea(LoginPanel), DictionaryArea(<<1>>),
   DictionaryArea(<<1, 2>>), NumberArea(2, 1, 0)}

AreaCOptions ==
  {AbsentArea, DateArea(2020, 2021, "YYYY"), DateArea(2020, 2021, "YYMM"),
   NumberArea(1, 3, 2), NumberArea(3, 1, 0),
   CustomArea(<<"x", ",", " ", "y", ",", "x">>)}

Connectors == {<<"_">>, <<>>}

AreaKeys == {"a", "b", "c"}

\* areas_enabled: the lists over the area keys without repetition
EnabledOptions ==
  UNION {Orders(K) : K \in SUBSET AreaKeys}

CombinationConfigs ==
  [area_a : AreaAOptions, area_b : AreaBOptions, area_c : AreaCOptions,
   connector : Connectors, areas_enabled : EnabledOptions]

(***************************************************************************)
(* Actions                                                                 *)
(***************************************************************************)

\* the generators are constructed on an existing database; no call yet
Init ==
  /\ db \in {[words |-> t] : t \in SampleTables}
  /\ call = [op |-> "init"]

\* One generator or deduplicator call is made on the words table. Such a
\* call does not write the table, so the pairs (db, call) reached are those
\* of any sequence of calls.
Ready == call.op = "init"

\* list(CombinationGenerator.generate_combinations(config))
GenerateCombinations ==
  /\ Ready
  /\ \E config \in CombinationConfigs :
    \E result \in generate_combinations(config, db.words) :
      /\ call' = [op |-> "generate_combinations", config |-> config,
                  result |-> result]
      /\ UNCHANGED db

\* CombinationGenerator.estimate_combination_count(config)
EstimateCombinationCount ==
  /\ Ready
  /\ \E config \in CombinationConfigs :
    /\ call' = [op |-> "estimate_combination_count", config |-> config,
                result |-> estimate_combination_count(config, db.words)]
    /\ UNCHANGED db

NextCombination ==
  \/ GenerateCombinations
  \/ EstimateCombinationCount

SpecCombination == Init /\ [][NextCombination]_vars

(***************************************************************************)
(* Properties of the combination generator                                 *)
(***************************************************************************)

\* the strings an area resolves to, whatever key it is placed under
ResolvedSet(area, rows) ==
  IF area.type = "custom" THEN Range(CustomItems(area.text))
  ELSE IF area.type = "text"
  THEN (IF Len(area.text) > 0 THEN {area.text} ELSE {})
  ELSE IF area.type = "dictionary"
  THEN Range(get_dictionary_words(rows, area.ids))
  ELSE IF area.type = "date"
  THEN Range(generate_date_range(area.start, area.end, area.format))
  ELSE IF area.type = "number"
  THEN Range(generate_number_sequence(area.start, area.end, area.width))
  ELSE {}

\* the enabled areas of a configuration: enabled keys that have a config
EnabledAreas(config) ==
  {k \in AreaKeys : InList(k, config.areas_enabled)
                    /\ AreaOf(config, k).type # "absent"}

\* the product of the number of strings of every enabled area
RECURSIVE ResolvedProduct(_, _, _)
ResolvedProduct(config, rows, keys) ==
  IF keys = {} THEN 1
  ELSE LET k == CHOOSE x \in keys : TRUE
       IN Cardinality(ResolvedSet(AreaOf(config, k), rows))
          * ResolvedProduct(config, rows, keys \ {k})

\* C1: for every configuration with at least one enabled area, the number
\* of strings generate_combinations yields equals the value of
\* estimate_combination_count, and both equal the product of the sizes of
\* the resolved lists of all enabled areas.
C1_ProductLaw ==
  (call.op = "generate_combinations" /\ EnabledAreas(call.config) # {})
  => /\ Len(call.result) = estimate_combination_count(call.config, db.words)
     /\ Len(call.result)
          = ResolvedProduct(call.config, db.words, EnabledAreas(call.config))

\* the area types generate_combinations reads under each key
TypesOfKey(k) ==
  IF k = "a" THEN {"custom", "text"}
  ELSE IF k = "b" THEN {"dictionary", "custom"}
  ELSE {"date", "number", "custom"}

\* C2: if any enabled area resolves to an empty list (blank custom text, a
\* dictionary reference without words, a number range with end < start, a
\* date range of unrecognized format), generate_combinations yields nothing.
C2_EmptyAreaEmptiesProduct ==
  (/\ call.op = "generate_combinations"
   /\ \E k \in EnabledAreas(call.config) :
        /\ AreaOf(call.config, k).type \in TypesOfKey(k)
        /\ ResolvedSet(AreaOf(call.config, k), db.words) = {})
  => call.result = <<>>

\* the areas that take part in the product: enabled, of a type read under
\* their key, and not empty
Participating(config, rows) ==
  {k \in EnabledAreas(config) :
     /\ AreaOf(config, k).type \in TypesOfKey(k)
     /\ ResolvedSet(AreaOf(config, k), rows) # {}}

\* the one-element part lists of area k, or the empty part list when the
\* area does not take part
PartsOf(config, rows, k) ==
  IF k \in Participating(config, rows)
  THEN {<<x>> : x \in ResolvedSet(AreaOf(config, k), rows)}
  ELSE {<<>>}

\* every tuple with one element of each participating area, joined in the
\* order a, b, c
JoinedTuples(config, rows) ==
  {Join(pa \o pb \o pc, config.connector) :
     pa \in PartsOf(config, rows, "a"), pb \in PartsOf(config, rows, "b"),
     pc \in PartsOf(config, rows, "c")}

\* a = {admin, user}, b = {login, panel}, connector '_'
C3_Example(config) ==
  /\ config.area_a = CustomArea(AdminUser)
  /\ config.area_b = CustomArea(LoginPanel)
  /\ config.connector = <<"_">>
  /\ Range(config.areas_enabled) = {"a", "b"}

C3_ExampleOutput ==
  {<<"a", "d", "m", "i", "n", "_", "l", "o", "g", "i", "n">>,
   <<"a", "d", "m", "i", "n", "_", "p", "a", "n", "e", "l">>,
   <<"u", "s", "e", "r", "_", "l", "o", "g", "i", "n">>,
   <<"u", "s", "e", "r", "_", "p", "a", "n", "e", "l">>}

\* C3: the set of strings generate_combinations yields is exactly the set
\* of tuples with one element of each participating area, joined with the
\* connector in the key order a, b, c, whatever the order of areas_enabled;
\* the example configuration yields admin_login, admin_panel, user_login,
\* user_panel.
C3_SortedKeyOrder ==
  call.op = "generate_combinations"
  => /\ Range(call.result)
          = (IF Participating(call.config, db.words) = {} THEN {}
             ELSE JoinedTuples(call.config, db.words))
     /\ C3_Example(call.config)
          => Range(call.result) = C3_ExampleOutput /\ Len(call.result) = 4

\* areas_enabled lists b before a, both areas take part
C3_Witness ==
  /\ call.op = "generate_combinations"
  /\ call.config.areas_enabled = <<"b", "a">>
  /\ C3_Example(call.config)
  /\ Range(call.result) = C3_ExampleOutput

(***************************************************************************)
(* FuzzingGenerator (src/core/fuzzing_generator.py)                        *)
(*                                                                         *)
(* The methods build a set and return list(set): the returned list is      *)
(* modelled by that set. replacements is the rules dict as the list of its *)
(* items [pattern, replacement_list].                                      *)
(***************************************************************************)

\* self.path_traversal_payloads
path_traversal_payloads == <<
  <<".", ".", "/">>,
  <<".", ".", "\\">>,
  <<".", ".", ".", ".", "/">>,
  <<".", ".", ".", ".", "\\">>,
  <<"%", "2", "e", "%", "2", "e", "%", "2", "f">>,
  <<"%", "2", "e", "%", "2", "e", "%", "5", "c">>,
  <<"%", "2", "5", "2", "e", "%", "2", "5", "2", "e", "%", "2", "5", "2", "f">>,
  <<".", ".", "%", "2", "f">>,
  <<".", ".", "%", "5", "c">>,
  <<".", ".", "%", "2", "5", "2", "f">>,
  <<".", ".", "%", "2", "5", "5", "c">> >>

extract_path_segments(path) ==
  LET p == Strip(path, {"/"})
  IN IF Len(p) = 0 THEN <<>> ELSE Split(p, "/")

\* str.isdigit() for ASCII text
IsDigitStr(s) == Len(s) > 0 /\ \A i \in 1..Len(s) : s[i] \in DigitSet

\* re.match(r'^v\d+$', segment): $ also matches before a final newline
IsVersionToken(segment) ==
  LET body == IF Len(segment) > 0 /\ segment[Len(segment)] = "\n"
              THEN SubSeq(segment, 1, Len(segment) - 1) ELSE segment
  IN Len(body) >= 2 /\ body[1] = "v" /\ IsDigitStr(Tail(body))

\* the version rule keys of _matches_pattern
VersionPatterns == {<<"v", "1">>, <<"v", "2">>, <<"v", "3">>, <<"v", "4">>,
                    <<"v", "5">>}

\* _matches_pattern without the version and digit classes
_matches_pattern_exact_only(segment, pattern) == segment = pattern

_matches_pattern(segment, pattern) ==
  IF segment = pattern THEN TRUE
  ELSE IF pattern \in VersionPatterns THEN IsVersionToken(segment)
  ELSE IF IsDigitStr(pattern) THEN IsDigitStr(segment)
  ELSE FALSE

\* '/' + '/'.join(new_segments)
PathOf(segments) == <<"/">> \o Join(segments, <<"/">>)

\* lines 79-101 for the segments of the path
replaced_paths(path, segments, replacements) ==
  {path} \cup
  UNION {UNION {
    (IF _matches_pattern(segments[i], replacements[r].pattern)
     THEN {PathOf(SetAt(segments, i, replacements[r].replacement_list[k])) :
           k \in 1..Len(replacements[r].replacement_list)}
     ELSE {})
    \cup
    (IF Contains(segments[i], replacements[r].pattern)
     THEN {PathOf(SetAt(segments, i,
             ReplaceAll(segments[i], replacements[r].pattern,
                        replacements[r].replacement_list[k]))) :
           k \in 1..Len(replacements[r].replacement_list)}
     ELSE {})
    : r \in 1..Len(replacements)} : i \in 1..Len(segments)}

replace_path_segments(path, replacements) ==
  IF Len(extract_path_segments(path)) = 0 THEN {path}
  ELSE replaced_paths(path, extract_path_segments(path), replacements)

\* the pairs random.sample(range(n), 2) can draw, as sets {i, j} (1-based)
IndexPairs(n) == {{i, j} : i \in 1..n, j \in 1..n} \ {{i} : i \in 1..n}

\* the path with the two segments of the pair exchanged
SwappedPath(segments, pair) ==
  LET i == CHOOSE x \in pair : TRUE
      j == CHOOSE x \in pair : x # i
  IN PathOf(SwapAt(segments, i, j))

\* the fixed swaps without the exchange of the first and the last segment
fixed_swaps_adjacent_only(path, segments) ==
  {path}
  \cup {PathOf(SwapAt(segments, i, i + 1)) : i \in 1..(Len(segments) - 1)}

\* lines 142-156: the original, the adjacent swaps and the first-last swap
fixed_swaps(path, segments) ==
  {path}
  \cup {PathOf(SwapAt(segments, i, i + 1)) : i \in 1..(Len(segments) - 1)}
  \cup (IF Len(segments) > 2
        THEN {PathOf(SwapAt(segments, 1, Len(segments)))} ELSE {})

\* lines 158-166 for the segments of the path: the random loop runs
\* min(3, len(segments)) times and each round draws one pair
swapped_paths(path, segments) ==
  {fixed_swaps(path, segments)
     \cup {SwappedPath(segments, drawn[round]) : round \in DOMAIN drawn} :
   drawn \in [1..Min2(3, Len(segments)) -> IndexPairs(Len(segments))]}

\* swap_path_positions(path): every result set it can return
swap_path_positions(path) ==
  IF Len(extract_path_segments(path)) < 2 THEN {{path}}
  ELSE swapped_paths(path, extract_path_segments(path))

\* payload * depth
RECURSIVE Repeat(_, _)
Repeat(payload, depth) ==
  IF depth <= 0 THEN <<>> ELSE payload \o Repeat(payload, depth - 1)

\* lines 181-199 for the segments of the path
traversal_paths(path, segments, max_depth) ==
  {path} \cup
  UNION {
    {<<"/">> \o Repeat(path_traversal_payloads[p], depth)
            \o LStrip(path, {"/"}) : depth \in 1..max_depth}
    \cup
    {PathOf(InsertAt(segments, i,
              RStrip(path_traversal_payloads[p], {"/", "\\"}))) :
       i \in 1..Len(segments)}
    : p \in 1..Len(path_traversal_payloads)}

add_path_traversal(path, max_depth) ==
  traversal_paths(path, extract_path_segments(path), max_depth)

(***************************************************************************)
(* urllib.parse as add_parameter_injection uses it, for ASCII text         *)
(***************************************************************************)

\* chr(n) for the printable ASCII characters
Chr(n) == IF n <= 95 THEN AsciiLow[n - 31] ELSE AsciiHigh[n - 96]

IsUpper(c) == Ord(c) >= 65 /\ Ord(c) <= 90

IsAlpha(c) == IsUpper(c) \/ (Ord(c) >= 97 /\ Ord(c) <= 122)

IsAlnum(c) == IsAlpha(c) \/ c \in DigitSet

\* str.lower()
Lower(s) == [i \in 1..Len(s) |-> IF IsUpper(s[i]) THEN Chr(Ord(s[i]) + 32)
                                 ELSE s[i]]

\* [c for c in s if c not in chars]
RECURSIVE Without(_, _)
Without(s, chars) ==
  IF Len(s) = 0 THEN <<>>
  ELSE IF s[1] \in chars THEN Without(Tail(s), chars)
  ELSE <<s[1]>> \o Without(Tail(s), chars)

\* s.split(c, 1) as the pair before and after the first c (c occurs in s)
Before(s, c) == SubSeq(s, 1, IndexOf(s, c) - 1)

After(s, c) == SubSeq(s, IndexOf(s, c) + 1, Len(s))

\* urllib.parse.uses_netloc
uses_netloc == {
   <<>>, <<"f", "t", "p">>, <<"h", "t", "t", "p">>,
   <<"g", "o", "p", "h", "e", "r">>, <<"n", "n", "t", "p">>,
   <<"t", "e", "l", "n", "e", "t">>, <<"i", "m", "a", "p">>,
   <<"w", "a", "i", "s">>, <<"f", "i", "l", "e">>, <<"m", "m", "s">>,
   <<"h", "t", "t", "p", "s">>, <<"s", "h", "t", "t", "p">>,
   <<"s", "n", "e", "w", "s">>, <<"p", "r", "o", "s", "p", "e", "r", "o">>,
   <<"r", "t", "s", "p">>, <<"r", "t", "s", "p", "s">>,
   <<"r", "t", "s", "p", "u">>, <<"r", "s", "y", "n", "c">>,
   <<"s", "v", "n">>, <<"s", "v", "n", "+", "s", "s", "h">>,
   <<"s", "f", "t", "p">>, <<"n", "f", "s">>, <<"g", "i", "t">>,
   <<"g", "i", "t", "+", "s", "s", "h">>, <<"w", "s">>, <<"w", "s", "s">> }

\* urllib.parse.uses_params
uses_params == {
   <<>>, <<"f", "t", "p">>, <<"h", "d", "l">>,
   <<"p", "r", "o", "s", "p", "e", "r", "o">>, <<"h", "t", "t", "p">>,
   <<"i", "m", "a", "p">>, <<"h", "t", "t", "p", "s">>,
   <<"s", "h", "t", "t", "p">>, <<"r", "t", "s", "p">>,
   <<"r", "t", "s", "p", "s">>, <<"r", "t", "s", "p", "u">>,
   <<"s", "i", "p">>, <<"s", "i", "p", "s">>, <<"m", "m", "s">>,
   <<"s", "f", "t", "p">>, <<"t", "e", "l">> }

\* the 1-based position of the first of '/', '?', '#' at or after position
\* from, or Len(url) + 1
NetlocEnd(url, from) ==
  IF \E i \in from..Len(url) : url[i] \in {"/", "?", "#"}
  THEN CHOOSE i \in from..Len(url) :
         /\ url[i] \in {"/", "?", "#"}
         /\ \A j \in from..(i - 1) : url[j] \notin {"/", "?", "#"}
  ELSE Len(url) + 1

\* the last position of c in s, 0 when absent
LastIndexOf(s, c) ==
  IF \E i \in 1..Len(s) : s[i] = c
  THEN CHOOSE i \in 1..Len(s) : s[i] = c /\ \A j \in (i + 1)..Len(s) : s[j] # c
  ELSE 0

\* urlsplit, last step: the query is what follows the first '?'; ok is FALSE
\* when urlsplit raises ValueError (a netloc with one of '[' and ']')
split_query(scheme, netloc, url, fragment) ==
  [ok |-> InList("[", netloc) = InList("]", netloc),
   scheme |-> scheme,
   netloc |-> netloc,
   path |-> IF InList("?", url) THEN Before(url, "?") ELSE url,
   params |-> <<>>,
   query |-> IF InList("?", url) THEN After(url, "?") ELSE <<>>,
   fragment |-> fragment]

\* urlsplit: the fragment is what follows the first '#'
split_fragment(scheme, netloc, url) ==
  IF InList("#", url)
  THEN split_query(scheme, netloc, Before(url, "#"), After(url, "#"))
  ELSE split_query(scheme, netloc, url, <<>>)

\* urlsplit: after '//' the netloc runs to the first of '/', '?', '#'
split_netloc(scheme, url) ==
  IF StartsWith(url, <<"/", "/">>)
  THEN split_fragment(scheme, SubSeq(url, 3, NetlocEnd(url, 3) - 1),
                      SubSeq(url, NetlocEnd(url, 3), Len(url)))
  ELSE split_fragment(scheme, <<>>, url)

\* urlsplit: the scheme is the text before the first ':' when it starts with
\* a letter and holds only letters, digits, '+', '-' and '.'
split_scheme(url, i) ==
  IF /\ i > 1
     /\ IsAlpha(url[1])
     /\ \A k \in 1..(i - 1) : IsAlnum(url[k]) \/ url[k] \in {"+", "-", "."}
  THEN split_netloc(Lower(SubSeq(url, 1, i - 1)), SubSeq(url, i + 1, Len(url)))
  ELSE split_netloc(<<>>, url)

\* urlsplit(url): leading whitespace and every tab, CR and LF are removed
urlsplit(url) ==
  split_scheme(Without(LStrip(url, Whitespace), {"\t", "\r", "\n"}),
               IndexOf(Without(LStrip(url, Whitespace), {"\t", "\r", "\n"}),
                       ":"))

\* _splitparams(url), cutting at position semi (0: no ';' to cut at)
split_params(split, semi) ==
  IF semi = 0 THEN split
  ELSE [split EXCEPT !.path = SubSeq(split.path, 1, semi - 1),
                     !.params = SubSeq(split.path, semi + 1, Len(split.path))]

\* the position of the first ';' after the last '/' of the path, 0 if none
ParamsAt(path) ==
  IF IndexOf(SubSeq(path, LastIndexOf(path, "/") + 1, Len(path)), ";") = 0
  THEN 0
  ELSE LastIndexOf(path, "/")
       + IndexOf(SubSeq(path, LastIndexOf(path, "/") + 1, Len(path)), ";")

\* with_params(urlsplit(url)): the params are cut off for the schemes of
\* uses_params
with_params(split) ==
  IF split.scheme \in uses_params /\ InList(";", split.path)
  THEN split_params(split, ParamsAt(split.path))
  ELSE split

\* urlparse(url): [ok, scheme, netloc, path, params, query, fragment]
urlparse(url) == with_params(urlsplit(url))

\* url + mark + part when part is not empty
Suffixed(url, mark, part) ==
  IF Len(part) > 0 THEN url \o <<mark>> \o part ELSE url

\* urlunsplit: '//' + netloc in front of the path
unsplit_netloc(scheme, netloc, url) ==
  IF \/ Len(netloc) > 0
     \/ (/\ Len(scheme) > 0
         /\ scheme \in uses_netloc
         /\ ~StartsWith(url, <<"/", "/">>))
  THEN <<"/", "/">> \o netloc
       \o (IF Len(url) > 0 /\ url[1] # "/" THEN <<"/">> \o url ELSE url)
  ELSE url

\* urlunsplit: scheme + ':' in front
unsplit_scheme(scheme, url) ==
  IF Len(scheme) > 0 THEN scheme \o <<":">> \o url ELSE url

\* urlunparse(parsed)
urlunparse(parsed) ==
  Suffixed(
    Suffixed(
      unsplit_scheme(parsed.scheme,
        unsplit_netloc(parsed.scheme, parsed.netloc,
          Suffixed(parsed.path, ";", parsed.params))),
      "?", parsed.query),
    "#", parsed.fragment)

HexDigits == <<"0", "1", "2", "3", "4", "5", "6", "7", "8", "9",
               "A", "B", "C", "D", "E", "F">>

\* int(c, 16), or -1 when c is no hexadecimal digit
HexValue(c) ==
  IF c \in DigitSet THEN Ord(c) - 48
  ELSE IF c \in {"a", "b", "c", "d", "e", "f"} THEN Ord(c) - 87
  ELSE IF c \in {"A", "B", "C", "D", "E", "F"} THEN Ord(c) - 55
  ELSE 0 - 1

\* unquote(s): %XX becomes the character of that code, any other '%' stays
RECURSIVE unquote(_)
unquote(s) ==
  IF Len(s) = 0 THEN <<>>
  ELSE IF /\ s[1] = "%"
          /\ Len(s) >= 3
          /\ HexValue(s[2]) >= 0
          /\ HexValue(s[3]) >= 0
  THEN <<Chr(16 * HexValue(s[2]) + HexValue(s[3]))>>
       \o unquote(SubSeq(s, 4, Len(s)))
  ELSE <<s[1]>> \o unquote(Tail(s))

\* quote_plus(s, safe=''): letters, digits and _.-~ stay, a space becomes
\* '+', any other character becomes %XX
quote_plus(s) ==
  ConcatAll([i \in 1..Len(s) |->
    IF IsAlnum(s[i]) \/ s[i] \in {"_", ".", "-", "~"} THEN <<s[i]>>
    ELSE IF s[i] = " " THEN <<"+">>
    ELSE <<"%", HexDigits[(Ord(s[i]) \div 16) + 1],
           HexDigits[(Ord(s[i]) % 16) + 1]>>])

\* one name=value field of the query as parse_qsl decodes it
QueryField(name_value) ==
  LET has_eq == InList("=", name_value)
      name == IF has_eq THEN Before(name_value, "=") ELSE name_value
      value == IF has_eq THEN After(name_value, "=") ELSE <<>>
  IN [name |-> unquote(ReplaceAll(name, <<"+">>, <<" ">>)),
      value |-> unquote(ReplaceAll(value, <<"+">>, <<" ">>))]

\* the dict params with value appended to the list of name
RECURSIVE AddValue(_, _, _)
AddValue(params, name, value) ==
  IF Len(params) = 0 THEN <<[name |-> name, values |-> <<value>>]>>
  ELSE IF params[1].name = name
  THEN <<[name |-> name, values |-> Append(params[1].values, value)]>>
       \o Tail(params)
  ELSE <<params[1]>> \o AddValue(Tail(params), name, value)

\* the fields from position i on added to the dict params
RECURSIVE CollectFields(_, _, _)
CollectFields(fields, i, params) ==
  IF i > Len(fields) THEN params
  ELSE IF Len(fields[i]) = 0 THEN CollectFields(fields, i + 1, params)
  ELSE CollectFields(fields, i + 1,
         AddValue(params, QueryField(fields[i]).name,
                  QueryField(fields[i]).value))

\* parse_qs(query, keep_blank_values=True): the dict as the list of its
\* items [name, values] in insertion order
parse_qs(query) ==
  IF Len(query) = 0 THEN <<>> ELSE CollectFields(Split(query, "&"), 1, <<>>)

\* new_params = params.copy(); new_params[name] = [value]
RECURSIVE SetParam(_, _, _)
SetParam(params, name, value) ==
  IF Len(params) = 0 THEN <<[name |-> name, values |-> <<value>>]>>
  ELSE IF params[1].name = name
  THEN <<[name |-> name, values |-> <<value>>]>> \o Tail(params)
  ELSE <<params[1]>> \o SetParam(Tail(params), name, value)

\* urlencode(params, doseq=True)
urlencode(params) ==
  Join(ConcatAll([i \in 1..Len(params) |->
         [k \in 1..Len(params[i].values) |->
            quote_plus(params[i].name) \o <<"=">>
            \o quote_plus(params[i].values[k])]]),
       <<"&">>)

\* self.param_injection_payloads
param_injection_payloads == <<
  <<"'", " ", "O", "R", " ", "'", "1", "'", "=", "'", "1">>,
  <<"\"", " ", "O", "R", " ", "\"", "1", "\"", "=", "\"", "1">>,
  <<"1", " ", "O", "R", " ", "1", "=", "1">>,
  <<"<", "s", "c", "r", "i", "p", "t", ">", "a", "l", "e", "r", "t", "(", "1", ")", "<", "/", "s", "c", "r", "i", "p", "t", ">">>,
  <<"$", "{", "7", "*", "7", "}">>,
  <<"{", "{", "7", "*", "7", "}", "}">>,
  <<".", ".", "/", ".", ".", "/", ".", ".", "/", "e", "t", "c", "/", "p", "a", "s", "s", "w", "d">>,
  <<".", ".", "\\", ".", ".", "\\", ".", ".", "\\", "w", "i", "n", "d", "o", "w", "s", "\\", "s", "y", "s", "t", "e", "m", "3", "2", "\\", "d", "r", "i", "v", "e", "r", "s", "\\", "e", "t", "c", "\\", "h", "o", "s", "t", "s">>,
  <<"f", "i", "l", "e", ":", "/", "/", "/", "e", "t", "c", "/", "p", "a", "s", "s", "w", "d">>,
  <<"h", "t", "t", "p", ":", "/", "/", "e", "v", "i", "l", ".", "c", "o", "m", "/", "c", "a", "l", "l", "b", "a", "c", "k">> >>

\* malicious_params
malicious_params == <<
  <<"d", "e", "b", "u", "g">>, <<"t", "e", "s", "t">>,
  <<"a", "d", "m", "i", "n">>, <<"r", "o", "o", "t">>,
  <<"f", "i", "l", "e">>, <<"p", "a", "t", "h">>, <<"u", "r", "l">>,
  <<"r", "e", "d", "i", "r", "e", "c", "t">> >>

\* the number of payloads the added parameters take, [:5]
MaliciousPayloadCount == 5

\* InjectedUrl that loses the authority
InjectedUrl_without_netloc(parsed, new_params) ==
  urlunparse([parsed EXCEPT !.query = urlencode(new_params),
                            !.netloc = <<>>])

\* urlunparse(parsed._replace(query=urlencode(new_params)))
InjectedUrl(parsed, new_params) ==
  urlunparse([parsed EXCEPT !.query = urlencode(new_params)])

\* lines 216-253 for the parsed URL and its params dict
injected_urls(url, parsed, params) ==
  {url}
  \cup {InjectedUrl(parsed,
          SetParam(params, params[i].name, param_injection_payloads[p])) :
        i \in 1..Len(params), p \in 1..Len(param_injection_payloads)}
  \cup {InjectedUrl(parsed,
          SetParam(params, params[i].name,
                   params[i].values[1] \o param_injection_payloads[p])) :
        i \in 1..Len(params), p \in 1..Len(param_injection_payloads)}
  \cup {InjectedUrl(parsed,
          SetParam(params, malicious_params[m],
                   param_injection_payloads[p])) :
        m \in 1..Len(malicious_params), p \in 1..MaliciousPayloadCount}

\* lines 212-214 and 255-257: no query, or ValueError from urlparse
injection_of(url, parsed) ==
  IF ~parsed.ok \/ Len(parsed.query) = 0 THEN {url}
  ELSE injected_urls(url, parsed, parse_qs(parsed.query))

add_parameter_injection(url) == injection_of(url, urlparse(url))

\* add_path_traversal(target) is called with the default max_depth
DefaultMaxDepth == 3

\* config.get('max_results', 1000)
DefaultMaxResults == 1000

max_results_of(config) ==
  IF config.max_results.has THEN config.max_results.val ELSE DefaultMaxResults

\* lines 273-277
replaced_targets(target, config) ==
  IF Len(config.replacement_rules) > 0
  THEN replace_path_segments(target, config.replacement_rules) ELSE {}

\* lines 279-282: every value of swapped_targets
swapped_targets(target, config) ==
  IF config.position_swap THEN swap_path_positions(target) ELSE {{}}

\* lines 284-287
traversal_targets(target, config) ==
  IF config.path_traversal THEN add_path_traversal(target, DefaultMaxDepth)
  ELSE {}

\* lines 289-292
injection_targets(target, config) ==
  IF /\ config.param_injection
     /\ \/ Contains(target, <<"h", "t", "t", "p">>)
        \/ InList("?", target)
  THEN add_parameter_injection(target) ELSE {}

\* results.update(...) with each value of swapped_targets
updated_results(results, swaps) == {results \cup swapped : swapped \in swaps}

\* lines 271-292: every value the set results can have before the cap
variant_sets(target, config) ==
  updated_results({target} \cup replaced_targets(target, config)
                           \cup traversal_targets(target, config)
                           \cup injection_targets(target, config),
                  swapped_targets(target, config))

\* random.sample(population, k) for 0 <= k <= len(population): every choice
\* of k distinct members
RECURSIVE sample(_, _)
sample(population, k) ==
  IF k = 0 THEN {{}}
  ELSE {s \cup {x} : s \in sample(population, k - 1), x \in population}
       \ sample(population, k - 1)

\* [r for r in result_list if r != target] without the filter
other_results_unfiltered(result_list, target) == result_list

\* [r for r in result_list if r != target]
other_results(result_list, target) == result_list \ {target}

\* [target] + selected_results without the target
capped_list_without_target(target, selected_results) ==
  SetToBag(selected_results)

\* [target] + selected_results, as the bag of its elements
capped_list(target, selected_results) ==
  SetToBag({target}) (+) SetToBag(selected_results)

\* the outcome of a try block: the list it returned, or the exception that
\* left it
Returned(list) == [raised |-> FALSE, list |-> list]

Raised == [raised |-> TRUE, list |-> EmptyBag]

\* lines 295-305: the outcomes of the cap for one value of results;
\* random.sample raises ValueError for a negative or too large k
limit_results(target, results, max_results) ==
  IF Cardinality(results) > max_results
  THEN IF \/ max_results - 1 < 0
          \/ max_results - 1 > Cardinality(other_results(results, target))
       THEN {Raised}
       ELSE {Returned(capped_list(target, selected_results)) :
             selected_results \in sample(other_results(results, target),
                                         max_results - 1)}
  ELSE {Returned(SetToBag(results))}

\* the try block of lines 270-305 without the handler of lines 307-309
except_return_target_absent(target, outcome) == outcome

\* lines 307-309: except Exception: return [target]
except_return_target(target, outcome) ==
  IF outcome.raised THEN Returned(SetToBag({target})) ELSE outcome

\* lines 270-305: every outcome of the try block
try_generate(target, config) ==
  UNION {limit_results(target, results, max_results_of(config)) :
         results \in variant_sets(target, config)}

\* generate_fuzzing_variants(target, config): every outcome of the call, the
\* list as the bag of its elements
generate_fuzzing_variants(target, config) ==
  {except_return_target(target, outcome) :
   outcome \in try_generate(target, config)}

(***************************************************************************)
(* Inputs of the fuzzing generator                                         *)
(***************************************************************************)

\* the longest seed drawn from SeedAlphabet
MaxSeedLen == 2

SeedAlphabet == {"/", "a", "1"}

ShortSeeds == UNION {[1..n -> SeedAlphabet] : n \in 0..MaxSeedLen}

\* "/api/v2/user"
ApiV2User ==
  <<"/", "a", "p", "i", "/", "v", "2", "/", "u", "s", "e", "r">>

\* "/v3/users?id=7"
V3UsersQuery ==
  <<"/", "v", "3", "/", "u", "s", "e", "r", "s", "?", "i", "d", "=", "7">>

\* "https://example.com/api/v2/users?id=1"
ExampleUrl ==
  <<"h", "t", "t", "p", "s", ":", "/", "/", "e", "x", "a", "m", "p", "l",
    "e", ".", "c", "o", "m", "/", "a", "p", "i", "/", "v", "2", "/", "u",
    "s", "e", "r", "s", "?", "i", "d", "=", "1">>

\* "https://example.com/api/v2/users"
ExampleUrlNoQuery ==
  <<"h", "t", "t", "p", "s", ":", "/", "/", "e", "x", "a", "m", "p", "l",
    "e", ".", "c", "o", "m", "/", "a", "p", "i", "/", "v", "2", "/", "u",
    "s", "e", "r", "s">>

\* "http://h.io/v2?id=1&q="
ShortUrl ==
  <<"h", "t", "t", "p", ":", "/", "/", "h", ".", "i", "o", "/", "v", "2",
    "?", "i", "d", "=", "1", "&", "q", "=">>

\* "HTTP://H.io/a?x=1": the scheme in upper case
UpperCaseUrl ==
  <<"H", "T", "T", "P", ":", "/", "/", "H", ".", "i", "o", "/", "a", "?",
    "x", "=", "1">>

\* "?a=1&a=2": a query alone, one name twice
QueryOnly == <<"?", "a", "=", "1", "&", "a", "=", "2">>

\* "http://[h?a=1": urlparse raises ValueError (Invalid IPv6 URL)
MalformedUrl ==
  <<"h", "t", "t", "p", ":", "/", "/", "[", "h", "?", "a", "=", "1">>

\* the targets of generate_fuzzing_variants
Targets ==
  ShortSeeds \cup {ApiV2User, V3UsersQuery, ExampleUrl, ShortUrl, UpperCaseUrl,
                  QueryOnly, MalformedUrl}

\* "////x?a=1": an empty authority in front of a path that starts with '//'
FourSlashes == <<"/", "/", "/", "/", "x", "?", "a", "=", "1">>

\* the arguments of the single mutation methods
Paths == Targets \cup {ExampleUrlNoQuery, FourSlashes}

\* the rules dict {'v2': ['v1'], 'users': ['admin']}
TwoRules == <<[pattern |-> <<"v", "2">>, replacement_list |-> <<<<"v", "1">>>>],
              [pattern |-> <<"u", "s", "e", "r", "s">>,
               replacement_list |-> <<<<"a", "d", "m", "i", "n">>>>]>>

\* the rules dict {'1': ['2'], 'a': ['b', '']}
DigitAndLetterRules ==
  <<[pattern |-> <<"1">>, replacement_list |-> <<<<"2">>>>],
    [pattern |-> <<"a">>, replacement_list |-> <<<<"b">>, <<>>>>]>>

\* the replacement_rules dicts
RuleOptions == {
  <<>>,
  <<[pattern |-> <<"v", "2">>, replacement_list |-> <<<<"v", "1">>, <<"v", "3">>>>]>>,
  TwoRules,
  DigitAndLetterRules,
  <<[pattern |-> <<"v", "1">>, replacement_list |-> <<<<"v", "9">>>>]>>,
  <<[pattern |-> <<"v", "9">>, replacement_list |-> <<<<"v", "1">>>>]>> }

\* config['replacement_rules'] with config['selected_replacement_rules']:
\* absent, or a list of rule keys
RuleSelections ==
  {[rules |-> r, selected |-> [has |-> FALSE, val |-> {}]] :
     r \in {<<>>, TwoRules, DigitAndLetterRules}}
  \cup {[rules |-> TwoRules, selected |-> [has |-> TRUE, val |-> k]] :
        k \in {{<<"v", "2">>}}}

\* config['max_results']: absent, or an integer
MaxResultsOptions ==
  {[has |-> FALSE, val |-> 0]}
  \cup {[has |-> TRUE, val |-> n] : n \in {0 - 3, 0, 1, 2}}

FuzzingConfigs ==
  {[replacement_rules |-> rs.rules,
    selected_replacement_rules |-> rs.selected,
    position_swap |-> flags[1],
    param_injection |-> flags[2],
    path_traversal |-> flags[3],
    max_results |-> m] :
   rs \in RuleSelections, flags \in BOOLEAN \X BOOLEAN \X BOOLEAN,
   m \in MaxResultsOptions}

\* the largest max_depth passed to add_path_traversal
MaxDepth == 3

(***************************************************************************)
(* Actions of the fuzzing generator                                        *)
(***************************************************************************)

ReplacePathSegments ==
  /\ Ready
  /\ \E path \in Paths : \E replacements \in RuleOptions :
       call' = [op |-> "replace_path_segments", path |-> path,
                replacements |-> replacements,
                result |-> replace_path_segments(path, replacements)]
  /\ UNCHANGED db

SwapPathPositions ==
  /\ Ready
  /\ \E path \in Paths : \E result \in swap_path_positions(path) :
       call' = [op |-> "swap_path_positions", path |-> path,
                result |-> result]
  /\ UNCHANGED db

AddPathTraversal ==
  /\ Ready
  /\ \E path \in Paths : \E max_depth \in 0..MaxDepth :
       call' = [op |-> "add_path_traversal", path |-> path,
                max_depth |-> max_depth,
                result |-> add_path_traversal(path, max_depth)]
  /\ UNCHANGED db

AddParameterInjection ==
  /\ Ready
  /\ \E url \in Paths :
       call' = [op |-> "add_parameter_injection", url |-> url,
                result |-> add_parameter_injection(url)]
  /\ UNCHANGED db

GenerateFuzzingVariants ==
  /\ Ready
  /\ \E target \in Targets : \E config \in FuzzingConfigs :
       \E outcome \in generate_fuzzing_variants(target, config) :
         call' = [op |-> "generate_fuzzing_variants", target |-> target,
                  config |-> config, raised |-> outcome.raised,
                  result |-> outcome.list]
  /\ UNCHANGED db

NextFuzz ==
  \/ ReplacePathSegments
  \/ SwapPathPositions
  \/ AddPathTraversal
  \/ AddParameterInjection
  \/ GenerateFuzzingVariants

\* the fuzzing generator never reads the database
InitFuzz ==
  /\ db = [words |-> <<>>]
  /\ call = [op |-> "init"]

SpecFuzz == InitFuzz /\ [][NextFuzz]_vars

(***************************************************************************)
(* Properties of the fuzzing generator                                     *)
(***************************************************************************)

IsGenerate == call.op = "generate_fuzzing_variants"

\* the families that, for this call, add variants besides the seed
Overflowing ==
  /\ call.config.path_traversal
  /\ Len(call.target) > 0

\* C4: the list returned by generate_fuzzing_variants contains the seed, for
\* every seed, every combination of the toggles and rules and every
\* max_results, zero, one and negative values included
C4_SeedIncluded ==
  IsGenerate => BagIn(call.target, call.result)

\* a call whose variants exceed a max_results of zero or less
C4_Witness ==
  /\ IsGenerate
  /\ Overflowing
  /\ call.config.max_results.has
  /\ call.config.max_results.val <= 0
  /\ BagIn(call.target, call.result)

NoStringTwice(list) == \A v \in BagToSet(list) : CopiesIn(v, list) = 1

\* C5 as stated: the returned list holds no string twice and at most
\* max_results elements, for every integer max_results
C5_NoDuplicatesWithinMaxResults ==
  IsGenerate =>
    /\ NoStringTwice(call.result)
    /\ BagCardinality(call.result) <= max_results_of(call.config)

\* C5, amended: the returned list holds no string twice and at most
\* max(1, max_results) elements: the seed stays when max_results is below 1
C5_NoDuplicatesWithinCapOrSeedAlone ==
  IsGenerate =>
    /\ NoStringTwice(call.result)
    /\ BagCardinality(call.result) <= Max2(1, max_results_of(call.config))

\* a call cut down to max_results = 2 elements: the seed and one sampled
\* variant
C5_Witness ==
  /\ IsGenerate
  /\ Overflowing
  /\ call.config.max_results.has
  /\ call.config.max_results.val = 2
  /\ BagCardinality(call.result) = 2

\* an absolute URL: urlparse finds a scheme and an authority, and the text
\* has none of the characters urlsplit strips
IsAbsoluteUrl(seed) ==
  /\ \A i \in 1..Len(seed) : seed[i] \notin Whitespace
  /\ InList(":", seed)
  /\ LET parsed == urlparse(seed)
     IN parsed.ok /\ Len(parsed.scheme) > 0 /\ Len(parsed.netloc) > 0

\* scheme "://" authority of the seed, the scheme in its lower-case form
SchemeAndAuthority(seed) ==
  LET parsed == urlparse(seed)
  IN parsed.scheme \o <<":", "/", "/">> \o parsed.netloc

Http == <<"h", "t", "t", "p">>

AllFamilies(config) ==
  /\ Len(config.replacement_rules) > 0
  /\ config.position_swap
  /\ config.param_injection
  /\ config.path_traversal

\* C6: for an absolute URL seed with scheme and authority A, under every
\* configuration (all families enabled included), every returned string
\* that starts with 'http' starts with A
C6_HttpVariantsKeepAuthority ==
  (IsGenerate /\ IsAbsoluteUrl(call.target)) =>
    LET A == SchemeAndAuthority(call.target)
    IN \A v \in BagToSet(call.result) :
         StartsWith(v, Http) => StartsWith(v, A)

\* the example seed with all families enabled and uncapped: the result holds
\* an injected URL, which starts with 'http' and differs from the seed
C6_Witness ==
  /\ IsGenerate
  /\ call.target = ExampleUrl
  /\ AllFamilies(call.config)
  /\ ~call.config.max_results.has
  /\ \E v \in BagToSet(call.result) :
       /\ v # call.target
       /\ StartsWith(v, Http)
       /\ StartsWith(v, SchemeAndAuthority(ExampleUrl))

\* C7: for an absolute http:// or https:// seed every variant returned by
\* add_path_traversal begins with the seed's scheme and authority
C7_TraversalKeepsSchemeAndAuthority ==
  (/\ call.op = "add_path_traversal"
   /\ IsAbsoluteUrl(call.path)
   /\ \/ StartsWith(call.path, Http \o <<":", "/", "/">>)
      \/ StartsWith(call.path, Http \o <<"s", ":", "/", "/">>)) =>
    LET A == SchemeAndAuthority(call.path)
    IN \A v \in call.result : StartsWith(v, A)

\* the rules of the dict whose key is selected
RECURSIVE SelectRules(_, _)
SelectRules(replacements, selected) ==
  IF Len(replacements) = 0 THEN <<>>
  ELSE (IF replacements[1].pattern \in selected THEN <<replacements[1]>>
        ELSE <<>>) \o SelectRules(Tail(replacements), selected)

\* what the other families can add for this target
OtherFamilyVariants(target, config) ==
  UNION variant_sets(target, [config EXCEPT !.replacement_rules = <<>>])

\* C8: with a subset of selected rule keys in the configuration, every
\* returned candidate of the replacement family comes from a selected rule
C8_OnlySelectedRulesApply ==
  (IsGenerate /\ call.config.selected_replacement_rules.has) =>
    BagToSet(call.result) \subseteq
      replace_path_segments(call.target,
        SelectRules(call.config.replacement_rules,
                    call.config.selected_replacement_rules.val))
      \cup OtherFamilyVariants(call.target, call.config)

\* key and segment are both version tokens, v followed by digits
VersionMatchAsStated(segment, pattern) ==
  IsVersionToken(pattern) /\ IsVersionToken(segment)

\* the key is one of v1..v5 and the segment is a version token
VersionMatchOfListedKeys(segment, pattern) ==
  pattern \in VersionPatterns /\ IsVersionToken(segment)

\* the result of the recorded replace_path_segments call holds the seed and,
\* for every segment, every rule that equals it, matches it as a version
\* token or occurs in it, and every value of the rule, the path with the
\* segment (or the occurrences inside it) replaced; and the example
ReplacementsPresent(VersionMatch(_, _)) ==
  LET segments == extract_path_segments(call.path)
      rules == call.replacements
  IN /\ call.path \in call.result
     /\ \A i \in 1..Len(segments) : \A r \in 1..Len(rules) :
          \A k \in 1..Len(rules[r].replacement_list) :
            /\ (\/ segments[i] = rules[r].pattern
                \/ VersionMatch(segments[i], rules[r].pattern)) =>
                 PathOf(SetAt(segments, i, rules[r].replacement_list[k]))
                   \in call.result
            /\ Contains(segments[i], rules[r].pattern) =>
                 PathOf(SetAt(segments, i,
                          ReplaceAll(segments[i], rules[r].pattern,
                                     rules[r].replacement_list[k])))
                   \in call.result
     /\ (/\ call.path = ApiV2User
         /\ rules = <<[pattern |-> <<"v", "2">>,
                       replacement_list |-> <<<<"v", "1">>, <<"v", "3">>>>]>>) =>
          {<<"/", "a", "p", "i", "/", "v", "1", "/", "u", "s", "e", "r">>,
           <<"/", "a", "p", "i", "/", "v", "3", "/", "u", "s", "e", "r">>,
           ApiV2User} \subseteq call.result

\* C9 as stated: the result holds the seed and every replacement of every
\* rule whose key equals the segment, matches it as a version token (v
\* followed by digits) or occurs in it; /api/v2/user with v2 -> [v1, v3]
\* gives /api/v1/user, /api/v3/user and /api/v2/user
C9_EveryVersionKeyReplaces ==
  call.op = "replace_path_segments" =>
    ReplacementsPresent(VersionMatchAsStated)

\* C9, amended: the same, a rule matching a segment as a version token only
\* when its key is one of v1, v2, v3, v4, v5
C9_EveryReplacementPresent ==
  call.op = "replace_path_segments" =>
    ReplacementsPresent(VersionMatchOfListedKeys)

\* /api/v2/user under the rule v1 -> [v9]: v2 matches as a version token
C9_Witness ==
  /\ call.op = "replace_path_segments"
  /\ call.path = ApiV2User
  /\ call.replacements = <<[pattern |-> <<"v", "1">>,
                            replacement_list |-> <<<<"v", "9">>>>]>>
  /\ <<"/", "a", "p", "i", "/", "v", "9", "/", "u", "s", "e", "r">>
       \in call.result

(***************************************************************************)
(* Deduplicator (src/core/deduplicator.py)                                 *)
(*                                                                         *)
(* Each strategy is the set of lists it can return: one list, except where *)
(* the code enumerates a set.                                              *)
(***************************************************************************)

\* [words[i] for i in range(len(words)) if i in kept], from position i on
RECURSIVE Pick(_, _, _)
Pick(words, kept, i) ==
  IF i > Len(words) THEN <<>>
  ELSE (IF i \in kept THEN <<words[i]>> ELSE <<>>) \o Pick(words, kept, i + 1)

\* the loop "if key not in seen: seen.add(key); unique_words.append(word)":
\* a word stays when no earlier word has its key
FirstOfEachKey(words, keys) ==
  Pick(words, {i \in 1..Len(words) : \A j \in 1..(i - 1) : keys[j] # keys[i]},
       1)

exact_duplicate(words) == {FirstOfEachKey(words, words)}

\* the words compared as written, without lower()
case_sensitive_duplicate(words) == exact_duplicate(words)

case_insensitive_duplicate(words) ==
  {FirstOfEachKey(words, [i \in 1..Len(words) |-> Lower(words[i])])}

\* the length of the longest common run of a[i..ahi] and b[j..bhi] that
\* starts at i and j
RECURSIVE CommonRun(_, _, _, _, _, _)
CommonRun(a, i, ahi, b, j, bhi) ==
  IF i > ahi \/ j > bhi THEN 0
  ELSE IF a[i] # b[j] THEN 0
  ELSE 1 + CommonRun(a, i + 1, ahi, b, j + 1, bhi)

\* SequenceMatcher.find_longest_match without junk: the longest block, the
\* earliest in a and then the earliest in b among the longest
find_longest_match(a, alo, ahi, b, blo, bhi) ==
  LET starts == (alo..ahi) \X (blo..bhi)
      size(st) == CommonRun(a, st[1], ahi, b, st[2], bhi)
      best == CHOOSE st \in starts :
                \A other \in starts :
                  \/ size(st) > size(other)
                  \/ /\ size(st) = size(other)
                     /\ \/ st[1] < other[1]
                        \/ (st[1] = other[1] /\ st[2] <= other[2])
  IN [i |-> best[1], j |-> best[2], size |-> size(best)]

\* the sum of the sizes of SequenceMatcher.get_matching_blocks() between
\* a[alo..ahi] and b[blo..bhi]
RECURSIVE matches(_, _, _, _, _, _)
matches(a, alo, ahi, b, blo, bhi) ==
  IF alo > ahi \/ blo > bhi THEN 0
  ELSE LET m == find_longest_match(a, alo, ahi, b, blo, bhi)
       IN IF m.size = 0 THEN 0
          ELSE m.size
               + matches(a, alo, m.i - 1, b, blo, m.j - 1)
               + matches(a, m.i + m.size, ahi, b, m.j + m.size, bhi)

\* _calculate_similarity(str1, str2) >= threshold, the threshold being the
\* fraction num / den: ratio() is 2.0 * matches / length, and 1.0 for two
\* empty strings
similarity_at_least(str1, str2, threshold) ==
  LET a == Lower(str1)
      b == Lower(str2)
      length == Len(a) + Len(b)
  IN IF length = 0 THEN threshold.den >= threshold.num
     ELSE 2 * matches(a, 1, Len(a), b, 1, Len(b)) * threshold.den
            >= threshold.num * length

\* config.settings.SIMILARITY_THRESHOLD = 0.8
SIMILARITY_THRESHOLD == [num |-> 4, den |-> 5]

\* the loop comparing a word with the last accepted word only
RECURSIVE similarity_loop_last_accepted(_, _, _, _)
similarity_loop_last_accepted(words, i, unique_words, threshold) ==
  IF i > Len(words) THEN unique_words
  ELSE similarity_loop_last_accepted(words, i + 1,
         IF Len(unique_words) > 0
            /\ similarity_at_least(words[i], unique_words[Len(unique_words)],
                                   threshold)
         THEN unique_words ELSE Append(unique_words, words[i]),
         threshold)

\* lines 90-102, from word i on
RECURSIVE similarity_loop(_, _, _, _)
similarity_loop(words, i, unique_words, threshold) ==
  IF i > Len(words) THEN unique_words
  ELSE similarity_loop(words, i + 1,
         IF \E e \in 1..Len(unique_words) :
              similarity_at_least(words[i], unique_words[e], threshold)
         THEN unique_words ELSE Append(unique_words, words[i]),
         threshold)

\* threshold is [has, val]: None, or a fraction
similarity_duplicate(words, threshold) ==
  {similarity_loop(words, 1, <<>>,
     IF threshold.has THEN threshold.val ELSE SIMILARITY_THRESHOLD)}

\* a group of the words of at least that length
length_group_at_least(words, length) ==
  Pick(words, {i \in 1..Len(words) : Len(words[i]) >= length}, 1)

\* length_groups[length], the words of that length in input order
length_group(words, length) ==
  Pick(words, {i \in 1..Len(words) : Len(words[i]) = length}, 1)

\* lines 128-135, from group g on: list(set(group_words)) is any enumeration
\* of the set
RECURSIVE length_loop(_, _, _, _)
length_loop(words, lengths, g, keep_longest) ==
  IF g > Len(lengths) THEN {<<>>}
  ELSE LET group_words == length_group(words, lengths[g])
           unique_groups == IF keep_longest THEN Orders(Range(group_words))
                            ELSE {<<group_words[1]>>}
       IN {unique_group \o rest :
           unique_group \in unique_groups,
           rest \in length_loop(words, lengths, g + 1, keep_longest)}

length_duplicate(words, keep_longest) ==
  LET all_lengths == [i \in 1..Len(words) |-> Len(words[i])]
  IN length_loop(words, FirstOfEachKey(all_lengths, all_lengths), 1,
                 keep_longest)

AlnumSet == {c \in Range(AsciiLow) \cup Range(AsciiHigh) : IsAlnum(c)}

\* the characters of [a-z]
LowerSet == {c \in Range(AsciiHigh) : IsAlpha(c)}

\* re.compile(pattern) for the patterns passed: None stands for the default
\* '[a-zA-Z0-9]+'; a pattern '[class]+' compiles to its class and no atoms;
\* a pattern of one-character classes, some of them capture groups,
\* compiles to its atoms; '(' raises re.error
compile(pattern) ==
  IF pattern = "None"
  THEN [error |-> FALSE, class |-> AlnumSet, atoms |-> <<>>]
  ELSE IF pattern = "[0-9]+"
  THEN [error |-> FALSE, class |-> DigitSet, atoms |-> <<>>]
  ELSE IF pattern = "([a-z])[a-z0-9]"
  THEN [error |-> FALSE, class |-> {},
        atoms |-> <<[class |-> LowerSet, group |-> TRUE],
                    [class |-> LowerSet \cup DigitSet, group |-> FALSE]>>]
  ELSE IF pattern = "([a-z])([0-9])"
  THEN [error |-> FALSE, class |-> {},
        atoms |-> <<[class |-> LowerSet, group |-> TRUE],
                    [class |-> DigitSet, group |-> TRUE]>>]
  ELSE [error |-> TRUE, class |-> {}, atoms |-> <<>>]

\* ''.join(regex.findall(word)).lower() for a pattern '[class]+'
pattern_key(word, class) ==
  Lower(Without(word, (Range(AsciiLow) \cup Range(AsciiHigh)
                       \cup Whitespace) \ class))

\* the positions where the atoms match word, scanning from i on without
\* overlap
RECURSIVE match_starts(_, _, _)
match_starts(word, atoms, i) ==
  IF i + Len(atoms) - 1 > Len(word) THEN <<>>
  ELSE IF \A k \in 1..Len(atoms) : word[i + k - 1] \in atoms[k].class
  THEN <<i>> \o match_starts(word, atoms, i + Len(atoms))
  ELSE match_starts(word, atoms, i + 1)

\* the number of capture groups of the atoms
groups(atoms) == Cardinality({k \in 1..Len(atoms) : atoms[k].group})

\* the characters of the capture groups of the match at start
group_text(word, atoms, start) ==
  Pick(word, {start + k - 1 : k \in {g \in 1..Len(atoms) : atoms[g].group}},
       1)

\* regex.findall(word) for atoms: the whole matches without a group, the
\* group's text with one group, a tuple of texts with more groups
findall(word, atoms) ==
  LET starts == match_starts(word, atoms, 1)
  IN [m \in 1..Len(starts) |->
        IF groups(atoms) = 0
        THEN [tuple |-> FALSE,
              text |-> SubSeq(word, starts[m], starts[m] + Len(atoms) - 1)]
        ELSE [tuple |-> groups(atoms) > 1,
              text |-> group_text(word, atoms, starts[m])]]

\* ''.join(matches) raises TypeError when an item is a tuple
join_raises(found) == \E m \in 1..Len(found) : found[m].tuple

\* lines 164-165 for a compiled pattern
pattern_key_of(word, regex) ==
  IF Len(regex.atoms) = 0 THEN pattern_key(word, regex.class)
  ELSE LET found == findall(word, regex.atoms)
       IN Lower(ConcatAll([m \in 1..Len(found) |-> found[m].text]))

\* the call leaves pattern_duplicate by an exception other than re.error
pattern_raises(words, pattern) ==
  LET regex == compile(pattern)
  IN /\ ~regex.error
     /\ Len(regex.atoms) > 0
     /\ \E i \in 1..Len(words) : join_raises(findall(words[i], regex.atoms))

\* the lists the call can return: none when it raises
pattern_duplicate(words, pattern) ==
  LET regex == compile(pattern)
  IN IF regex.error THEN exact_duplicate(words)
     ELSE IF pattern_raises(words, pattern) THEN {}
     ELSE {FirstOfEachKey(words,
             [i \in 1..Len(words) |-> pattern_key_of(words[i], regex)])}

(***************************************************************************)
(* Inputs and actions of the deduplicator                                  *)
(***************************************************************************)

\* the longest input list
MaxWords == 3

WordPool == {<<>>, <<"a">>, <<"A">>, <<"b">>, <<"a", "b">>, <<"A", "b">>,
             <<"b", "a">>, <<"a", "-", "b">>, <<"a", "1">>}

\* ['a', 'A', 'a', 'b']
ExactExample == <<<<"a">>, <<"A">>, <<"a">>, <<"b">>>>

\* ['Test', 'test', 'TEST']
CaseExample == <<<<"T", "e", "s", "t">>, <<"t", "e", "s", "t">>,
                 <<"T", "E", "S", "T">>>>

\* ['ab', 'c', 'de']
LengthExample == <<<<"a", "b">>, <<"c">>, <<"d", "e">>>>

WordLists ==
  UNION {[1..n -> WordPool] : n \in 0..MaxWords}
  \cup {ExactExample, CaseExample, LengthExample}

\* threshold: None, 0.0, 0.5, 0.8 and 1.0
ThresholdOptions ==
  {[has |-> FALSE, val |-> [num |-> 0, den |-> 1]]}
  \cup {[has |-> TRUE, val |-> [num |-> t[1], den |-> t[2]]] :
        t \in {<<0, 1>>, <<1, 2>>, <<4, 5>>, <<1, 1>>}}

\* pattern: None, a digit class, a malformed expression, and expressions
\* with one and with two capture groups
PatternOptions ==
  {"None", "[0-9]+", "(", "([a-z])[a-z0-9]", "([a-z])([0-9])"}

InitDedup ==
  /\ db = [words |-> <<>>]
  /\ call = [op |-> "init"]

ExactDuplicate ==
  /\ Ready
  /\ \E words \in WordLists : \E result \in exact_duplicate(words) :
       call' = [op |-> "exact_duplicate", words |-> words,
                result |-> result]
  /\ UNCHANGED db

CaseInsensitiveDuplicate ==
  /\ Ready
  /\ \E words \in WordLists :
       \E result \in case_insensitive_duplicate(words) :
         call' = [op |-> "case_insensitive_duplicate", words |-> words,
                  result |-> result]
  /\ UNCHANGED db

SimilarityDuplicate ==
  /\ Ready
  /\ \E words \in WordLists : \E threshold \in ThresholdOptions :
       \E result \in similarity_duplicate(words, threshold) :
         call' = [op |-> "similarity_duplicate", words |-> words,
                  threshold |-> threshold, result |-> result]
  /\ UNCHANGED db

LengthDuplicate ==
  /\ Ready
  /\ \E words \in WordLists : \E keep_longest \in BOOLEAN :
       \E result \in length_duplicate(words, keep_longest) :
         call' = [op |-> "length_duplicate", words |-> words,
                  keep_longest |-> keep_longest, result |-> result]
  /\ UNCHANGED db

PatternDuplicate ==
  /\ Ready
  /\ \E words \in WordLists : \E pattern \in PatternOptions :
       \/ \E result \in pattern_duplicate(words, pattern) :
            call' = [op |-> "pattern_duplicate", words |-> words,
                     pattern |-> pattern, result |-> result]
       \/ /\ pattern_raises(words, pattern)
          /\ call' = [op |-> "pattern_duplicate_raised", words |-> words,
                      pattern |-> pattern, error |-> "TypeError"]
  /\ UNCHANGED db

NextDedup ==
  \/ ExactDuplicate
  \/ CaseInsensitiveDuplicate
  \/ SimilarityDuplicate
  \/ LengthDuplicate
  \/ PatternDuplicate

SpecDedup == InitDedup /\ [][NextDedup]_vars

(***************************************************************************)
(* Properties of the deduplicator                                          *)
(***************************************************************************)

\* the lists the strategy of the recorded call can return for its own result
Reapplied ==
  IF call.op = "exact_duplicate" THEN exact_duplicate(call.result)
  ELSE IF call.op = "case_insensitive_duplicate"
  THEN case_insensitive_duplicate(call.result)
  ELSE IF call.op = "similarity_duplicate"
  THEN similarity_duplicate(call.result, call.threshold)
  ELSE IF call.op = "length_duplicate"
  THEN length_duplicate(call.result, call.keep_longest)
  ELSE IF call.op = "pattern_duplicate"
  THEN pattern_duplicate(call.result, call.pattern)
  ELSE {}

\* C10: for every strategy and every input list, applying the strategy to
\* its own output returns that output unchanged as a list
C10_DedupIdempotent ==
  \A again \in Reapplied : again = call.result


IsDedup ==
  call.op \in {"exact_duplicate", "case_insensitive_duplicate",
               "similarity_duplicate", "length_duplicate",
               "pattern_duplicate"}

\* the position of the first occurrence of word in words, 0 when absent
FirstIndex(words, word) ==
  IF InList(word, words)
  THEN CHOOSE i \in 1..Len(words) :
         words[i] = word /\ \A j \in 1..(i - 1) : words[j] # word
  ELSE 0

\* C11: for every strategy and every input list the output is a subsequence
\* of the input: every retained element occurs in the input, and the first
\* occurrences of the retained elements are in the same order as the output
C11_OutputIsSubsequence ==
  IsDedup =>
    /\ \A i \in 1..Len(call.result) :
         FirstIndex(call.words, call.result[i]) > 0
    /\ \A i \in 1..Len(call.result) : \A j \in (i + 1)..Len(call.result) :
         FirstIndex(call.words, call.result[i])
           < FirstIndex(call.words, call.result[j])

\* C12: exact dedup returns one copy of each distinct string, case kept
\* apart (['a','A','a','b'] -> ['a','A','b']); case-insensitive dedup returns
\* one string per lower-cased form, the first-seen original
\* (['Test','test','TEST'] -> ['Test'])
C12_ExactAndCaseInsensitive ==
  /\ call.op = "exact_duplicate" =>
       /\ Range(call.result) = Range(call.words)
       /\ \A i, j \in 1..Len(call.result) :
            call.result[i] = call.result[j] => i = j
       /\ call.words = ExactExample =>
            call.result = <<<<"a">>, <<"A">>, <<"b">>>>
  /\ call.op = "case_insensitive_duplicate" =>
       /\ \A i, j \in 1..Len(call.result) :
            Lower(call.result[i]) = Lower(call.result[j]) => i = j
       /\ \A w \in 1..Len(call.words) :
            \E i \in 1..Len(call.result) :
              /\ Lower(call.result[i]) = Lower(call.words[w])
              /\ \E f \in 1..w :
                   /\ call.words[f] = call.result[i]
                   /\ \A e \in 1..(f - 1) :
                        Lower(call.words[e]) # Lower(call.words[w])
       /\ call.words = CaseExample =>
            call.result = <<<<"T", "e", "s", "t">>>>

\* the case-insensitive example has been deduplicated to its first casing
C12_Witness ==
  /\ call.op = "case_insensitive_duplicate"
  /\ call.words = CaseExample
  /\ call.result = <<<<"T", "e", "s", "t">>>>

(***************************************************************************)
(* Degenerate seeds and failures of the fuzzing generator                  *)
(***************************************************************************)

\* C13: for an empty seed, or a seed with no path segments (such as '/'),
\* generate_fuzzing_variants returns exactly the one-element list [seed]
\* under every configuration, path traversal, position swap and parameter
\* injection enabled included
C13_NoSegmentsOnlySeed ==
  (IsGenerate /\ Len(extract_path_segments(call.target)) = 0) =>
    call.result = SetToBag({call.target})

\* the configuration of the call with parameter injection switched off
WithoutInjection(config) == [config EXCEPT !.param_injection = FALSE]

\* C14: generate_fuzzing_variants never raises, for any seed and any
\* configuration, and the list it returns contains the seed; a seed that
\* urlparse rejects is handled as an opaque path string: the call returns
\* what it returns for that seed without parameter injection
C14_NeverRaises ==
  IsGenerate =>
    /\ ~call.raised
    /\ BagIn(call.target, call.result)
    /\ ~urlparse(call.target).ok =>
         \E outcome \in generate_fuzzing_variants(
                           call.target, WithoutInjection(call.config)) :
           call.result = outcome.list

\* a seed that urlparse rejects, with parameter injection and path traversal
\* enabled, has produced its traversal variants
C14_Witness ==
  /\ IsGenerate
  /\ call.target = MalformedUrl
  /\ call.config.param_injection
  /\ call.config.path_traversal
  /\ ~call.config.max_results.has
  /\ ~call.raised
  /\ BagCardinality(call.result) > 1

(***************************************************************************)
(* json: the Python values a configuration is made of, json.dumps with     *)
(* ensure_ascii=False and json.loads                                       *)
(***************************************************************************)

\* a Python value: str, int, bool, None, list, or dict (the list of its
\* items in insertion order)
py_value(t, s, n, items) == [t |-> t, s |-> s, n |-> n, items |-> items]

py_str(s) == py_value("str", s, 0, <<>>)

py_int(n) == py_value("int", <<>>, n, <<>>)

py_bool(b) == py_value("bool", <<>>, IF b THEN 1 ELSE 0, <<>>)

py_none == py_value("none", <<>>, 0, <<>>)

py_list(items) == py_value("list", <<>>, 0, items)

py_dict(items) == py_value("dict", <<>>, 0, items)

\* one item of a dict
item(key, value) == [key |-> key, value |-> value]

\* d.get(key): has = the key is present
dict_get(d, key) ==
  IF \E i \in 1..Len(d.items) : d.items[i].key = key
  THEN [has |-> TRUE,
        val |-> d.items[CHOOSE i \in 1..Len(d.items) :
                          d.items[i].key = key].value]
  ELSE [has |-> FALSE, val |-> py_none]

\* d[key] = value on the item list: a present key keeps its place
dict_set(items, key, value) ==
  IF \E i \in 1..Len(items) : items[i].key = key
  THEN [i \in 1..Len(items) |->
          IF items[i].key = key THEN item(key, value) ELSE items[i]]
  ELSE Append(items, item(key, value))

\* json.encoder ESCAPE_DCT for the characters of the model
escaped_char(c) ==
  IF c = "\"" THEN <<"\\", "\"">>
  ELSE IF c = "\\" THEN <<"\\", "\\">>
  ELSE IF c = "\n" THEN <<"\\", "n">>
  ELSE IF c = "\t" THEN <<"\\", "t">>
  ELSE IF c = "\r" THEN <<"\\", "r">>
  ELSE <<c>>

\* py_encode_basestring: the string between its quotes
RECURSIVE escape(_)
escape(s) ==
  IF Len(s) = 0 THEN <<>> ELSE escaped_char(s[1]) \o escape(Tail(s))

\* json.dumps(value, ensure_ascii=False): separators ', ' and ': '
RECURSIVE dumps(_)
dumps(value) ==
  IF value.t = "str" THEN <<"\"">> \o escape(value.s) \o <<"\"">>
  ELSE IF value.t = "int" THEN IntStr(value.n)
  ELSE IF value.t = "bool"
  THEN IF value.n = 1 THEN <<"t", "r", "u", "e">>
       ELSE <<"f", "a", "l", "s", "e">>
  ELSE IF value.t = "none" THEN <<"n", "u", "l", "l">>
  ELSE IF value.t = "list"
  THEN <<"[">> \o Join([i \in 1..Len(value.items) |-> dumps(value.items[i])],
                       <<",", " ">>) \o <<"]">>
  ELSE <<"{">> \o Join([i \in 1..Len(value.items) |->
                         dumps(py_str(value.items[i].key)) \o <<":", " ">>
                         \o dumps(value.items[i].value)],
                       <<",", " ">>) \o <<"}">>

\* the outcome of a scanner: the value and the index after it, or
\* JSONDecodeError
decode_error == [ok |-> FALSE, value |-> py_none, next |-> 0]

decoded(value, next) == [ok |-> TRUE, value |-> value, next |-> next]

\* json.decoder WHITESPACE.match(text, i).end()
RECURSIVE skip_whitespace(_, _)
skip_whitespace(text, i) ==
  IF i <= Len(text) /\ text[i] \in Whitespace
  THEN skip_whitespace(text, i + 1) ELSE i

\* json.decoder BACKSLASH for the escapes dumps writes in the model
unescaped_char(c) ==
  IF c = "n" THEN "\n" ELSE IF c = "t" THEN "\t" ELSE IF c = "r" THEN "\r"
  ELSE c

\* py_scanstring from the index after the opening quote; a control
\* character inside a string is an error (strict)
RECURSIVE scanstring(_, _, _)
scanstring(text, i, chars) ==
  IF i > Len(text) THEN decode_error
  ELSE IF text[i] = "\"" THEN decoded(py_str(chars), i + 1)
  ELSE IF text[i] = "\\"
  THEN IF \/ i + 1 > Len(text)
          \/ text[i + 1] \notin {"\"", "\\", "/", "n", "t", "r"}
       THEN decode_error
       ELSE scanstring(text, i + 2,
                       Append(chars, unescaped_char(text[i + 1])))
  ELSE IF text[i] \in {"\n", "\t", "\r"} THEN decode_error
  ELSE scanstring(text, i + 1, Append(chars, text[i]))

\* the digits of NUMBER_RE from index i, n the value read so far
RECURSIVE scan_digits(_, _, _, _)
scan_digits(text, i, sign, n) ==
  IF i <= Len(text) /\ text[i] \in DigitSet
  THEN scan_digits(text, i + 1, sign, 10 * n + (Ord(text[i]) - 48))
  ELSE decoded(py_int(sign * n), i)

\* NUMBER_RE (-?(?:0|[1-9]\d*)) for an integer: a leading 0 stands alone
scan_integer(text, i, sign) ==
  IF i > Len(text) \/ text[i] \notin DigitSet THEN decode_error
  ELSE IF text[i] = "0" THEN decoded(py_int(0), i + 1)
  ELSE scan_digits(text, i, sign, 0)

\* text[i:i+len(word)] == word
word_at(text, i, word) ==
  /\ i + Len(word) - 1 <= Len(text)
  /\ SubSeq(text, i, i + Len(word) - 1) = word

RECURSIVE scan_once(_, _)
RECURSIVE array_item(_, _, _)
RECURSIVE array_next(_, _, _)
RECURSIVE object_key(_, _, _)
RECURSIVE object_colon(_, _, _)
RECURSIVE object_value(_, _, _, _)
RECURSIVE object_next(_, _, _)

\* JSONArray after one value
array_item(text, items, scanned) ==
  IF ~scanned.ok THEN decode_error
  ELSE array_next(text, Append(items, scanned.value),
                  skip_whitespace(text, scanned.next))

\* JSONArray at ',' or ']'
array_next(text, items, i) ==
  IF i > Len(text) THEN decode_error
  ELSE IF text[i] = "]" THEN decoded(py_list(items), i + 1)
  ELSE IF text[i] = ","
  THEN array_item(text, items,
                  scan_once(text, skip_whitespace(text, i + 1)))
  ELSE decode_error

\* JSONObject at the opening quote of a key
object_key(text, items, i) ==
  IF i > Len(text) \/ text[i] # "\"" THEN decode_error
  ELSE object_colon(text, items, scanstring(text, i + 1, <<>>))

\* JSONObject after a key: ':' and the value
object_colon(text, items, key) ==
  IF ~key.ok THEN decode_error
  ELSE IF \/ skip_whitespace(text, key.next) > Len(text)
          \/ text[skip_whitespace(text, key.next)] # ":"
  THEN decode_error
  ELSE object_value(text, items, key.value.s,
         scan_once(text, skip_whitespace(text,
                           skip_whitespace(text, key.next) + 1)))

\* JSONObject after a value
object_value(text, items, key, scanned) ==
  IF ~scanned.ok THEN decode_error
  ELSE object_next(text, dict_set(items, key, scanned.value),
                   skip_whitespace(text, scanned.next))

\* JSONObject at ',' or '}'
object_next(text, items, i) ==
  IF i > Len(text) THEN decode_error
  ELSE IF text[i] = "}" THEN decoded(py_dict(items), i + 1)
  ELSE IF text[i] = ","
  THEN object_key(text, items, skip_whitespace(text, i + 1))
  ELSE decode_error

\* json.scanner py_make_scanner _scan_once at index i
scan_once(text, i) ==
  IF i > Len(text) THEN decode_error
  ELSE IF text[i] = "\"" THEN scanstring(text, i + 1, <<>>)
  ELSE IF text[i] = "{"
  THEN IF /\ skip_whitespace(text, i + 1) <= Len(text)
          /\ text[skip_whitespace(text, i + 1)] = "}"
       THEN decoded(py_dict(<<>>), skip_whitespace(text, i + 1) + 1)
       ELSE object_key(text, <<>>, skip_whitespace(text, i + 1))
  ELSE IF text[i] = "["
  THEN IF /\ skip_whitespace(text, i + 1) <= Len(text)
          /\ text[skip_whitespace(text, i + 1)] = "]"
       THEN decoded(py_list(<<>>), skip_whitespace(text, i + 1) + 1)
       ELSE array_item(text, <<>>,
                       scan_once(text, skip_whitespace(text, i + 1)))
  ELSE IF word_at(text, i, <<"n", "u", "l", "l">>)
  THEN decoded(py_none, i + 4)
  ELSE IF word_at(text, i, <<"t", "r", "u", "e">>)
  THEN decoded(py_bool(TRUE), i + 4)
  ELSE IF word_at(text, i, <<"f", "a", "l", "s", "e">>)
  THEN decoded(py_bool(FALSE), i + 5)
  ELSE IF text[i] = "-" THEN scan_integer(text, i + 1, 0 - 1)
  ELSE scan_integer(text, i, 1)

\* JSONDecoder.decode: one value, then only whitespace
decode_end(text, scanned) ==
  IF scanned.ok /\ skip_whitespace(text, scanned.next) = Len(text) + 1
  THEN scanned ELSE decode_error

\* json.loads(text)
loads(text) == decode_end(text, scan_once(text, skip_whitespace(text, 1)))

(***************************************************************************)
(* Configuration persistence: the tables combination_configs and           *)
(* fuzzing_configs as [exists, rows], rows in id order                     *)
(***************************************************************************)

\* a table DatabaseManager.create_tables never creates
missing_table == [exists |-> FALSE, rows |-> <<>>]

\* the table in a database file that holds it
empty_table == [exists |-> TRUE, rows |-> <<>>]

\* sqlite3 stores a bool parameter as the integer 0 or 1
sqlite_bool(b) == IF b THEN 1 ELSE 0

\* the outcome of an INSERT: sqlite3.OperationalError (no such table), which
\* the save methods log and raise again, or the table and cursor.lastrowid
inserted(table, row) ==
  IF ~table.exists THEN [raised |-> TRUE, table |-> table, id |-> 0]
  ELSE [raised |-> FALSE,
        table |-> [table EXCEPT !.rows = Append(@, row)],
        id |-> Len(table.rows) + 1]

\* save_fuzzing_config(name, replacement_rules, position_swap,
\* param_injection, path_traversal), the two datetime.now() given
save_fuzzing_config(table, name, replacement_rules, position_swap, param_injection, path_traversal, created_at, updated_at) ==
  inserted(table,
           [id |-> Len(table.rows) + 1, name |-> name,
            replacement_rules |-> dumps(replacement_rules),
            position_swap |-> sqlite_bool(position_swap),
            param_injection |-> sqlite_bool(param_injection),
            path_traversal |-> sqlite_bool(path_traversal),
            created_at |-> created_at, updated_at |-> updated_at])

\* lines 363-373: the dict built from a row; JSONDecodeError gives None
fuzzing_config_of(row, replacement_rules) ==
  IF ~replacement_rules.ok THEN py_none
  ELSE py_dict(<<
    item(<<"i", "d">>, py_int(row.id)),
    item(<<"n", "a", "m", "e">>, py_str(row.name)),
    item(<<"r", "e", "p", "l", "a", "c", "e", "m", "e", "n", "t", "_",
           "r", "u", "l", "e", "s">>, replacement_rules.value),
    item(<<"p", "o", "s", "i", "t", "i", "o", "n", "_", "s", "w", "a", "p">>,
         py_bool(row.position_swap # 0)),
    item(<<"p", "a", "r", "a", "m", "_", "i", "n", "j", "e", "c", "t", "i",
           "o", "n">>, py_bool(row.param_injection # 0)),
    item(<<"p", "a", "t", "h", "_", "t", "r", "a", "v", "e", "r", "s", "a",
           "l">>, py_bool(row.path_traversal # 0)),
    item(<<"c", "r", "e", "a", "t", "e", "d", "_", "a", "t">>,
         py_int(row.created_at)),
    item(<<"u", "p", "d", "a", "t", "e", "d", "_", "a", "t">>,
         py_int(row.updated_at))>>)

\* load_fuzzing_config(config_id): None for a missing table (the
\* sqlite3.Error is caught) and for an id without a row
load_fuzzing_config(table, config_id) ==
  IF ~table.exists \/ config_id \notin 1..Len(table.rows) THEN py_none
  ELSE fuzzing_config_of(table.rows[config_id],
                         loads(table.rows[config_id].replacement_rules))

\* save_combination_config(name, config), the two datetime.now() given
save_combination_config(table, name, config, created_at, updated_at) ==
  inserted(table,
           [id |-> Len(table.rows) + 1, name |-> name,
            config_data |-> dumps(config),
            created_at |-> created_at, updated_at |-> updated_at])

\* lines 262-270: the dict built from a row; JSONDecodeError gives None
combination_config_of(row, config) ==
  IF ~config.ok THEN py_none
  ELSE py_dict(<<
    item(<<"i", "d">>, py_int(row.id)),
    item(<<"n", "a", "m", "e">>, py_str(row.name)),
    item(<<"c", "o", "n", "f", "i", "g">>, config.value),
    item(<<"c", "r", "e", "a", "t", "e", "d", "_", "a", "t">>,
         py_int(row.created_at)),
    item(<<"u", "p", "d", "a", "t", "e", "d", "_", "a", "t">>,
         py_int(row.updated_at))>>)

\* load_combination_config(config_id)
load_combination_config(table, config_id) ==
  IF ~table.exists \/ config_id \notin 1..Len(table.rows) THEN py_none
  ELSE combination_config_of(table.rows[config_id],
                             loads(table.rows[config_id].config_data))

(***************************************************************************)
(* Inputs of the configuration persistence                                 *)
(***************************************************************************)

\* the rows saved in one behaviour
MaxConfigs == 2

\* the values of datetime.now(), as a logical time
Times == {1, 2}

\* the name given to every configuration
ConfigName == <<"c", "f", "g">>

\* {'v2': ['v1', 'v3']}
RulesV2 ==
  py_dict(<<item(<<"v", "2">>,
                 py_list(<<py_str(<<"v", "1">>), py_str(<<"v", "3">>)>>))>>)

\* {'a"b': ['\\', 'x y']}: a quote and a backslash to escape
RulesQuoted ==
  py_dict(<<item(<<"a", "\"", "b">>,
                 py_list(<<py_str(<<"\\">>), py_str(<<"x", " ", "y">>)>>))>>)

\* the dict FuzzingWidget.get_current_config builds (fuzzing_widget.py
\* lines 519-538); custom_traversal_payloads is set only when not empty
mutation_config(replacement_rules, selected_replacement_rules, position_swap, param_injection, path_traversal, traversal_max_depth, max_results, custom_traversal_payloads) ==
  py_dict(<<
    item(<<"r", "e", "p", "l", "a", "c", "e", "m", "e", "n", "t", "_",
           "r", "u", "l", "e", "s">>, replacement_rules),
    item(<<"s", "e", "l", "e", "c", "t", "e", "d", "_", "r", "e", "p", "l",
           "a", "c", "e", "m", "e", "n", "t", "_", "r", "u", "l", "e", "s">>,
         selected_replacement_rules),
    item(<<"p", "o", "s", "i", "t", "i", "o", "n", "_", "s", "w", "a", "p">>,
         py_bool(position_swap)),
    item(<<"p", "a", "r", "a", "m", "_", "i", "n", "j", "e", "c", "t", "i",
           "o", "n">>, py_bool(param_injection)),
    item(<<"p", "a", "t", "h", "_", "t", "r", "a", "v", "e", "r", "s", "a",
           "l">>, py_bool(path_traversal)),
    item(<<"t", "r", "a", "v", "e", "r", "s", "a", "l", "_", "m", "a", "x",
           "_", "d", "e", "p", "t", "h">>, py_int(traversal_max_depth)),
    item(<<"m", "a", "x", "_", "r", "e", "s", "u", "l", "t", "s">>,
         py_int(max_results))>>
    \o (IF Len(custom_traversal_payloads) = 0 THEN <<>>
        ELSE <<item(<<"c", "u", "s", "t", "o", "m", "_", "t", "r", "a", "v",
                      "e", "r", "s", "a", "l", "_", "p", "a", "y", "l", "o",
                      "a", "d", "s">>,
                    py_list(custom_traversal_payloads))>>))

\* rules with the selected keys
RulesAndSelections ==
  {<<py_dict(<<>>), py_list(<<>>)>>,
   <<RulesV2, py_list(<<py_str(<<"v", "2">>)>>)>>,
   <<RulesV2, py_list(<<>>)>>,
   <<RulesQuoted, py_list(<<py_str(<<"a", "\"", "b">>)>>)>>}

\* depth, max_results and custom payloads: the defaults of the widget, and
\* others
TraversalAndCap ==
  {<<3, 1000, <<>>>>, <<5, 50, <<py_str(<<".", ".", ";", "/">>)>>>>}

MutationConfigs ==
  {mutation_config(rs[1], rs[2], flags[1], flags[2], flags[3],
                   tc[1], tc[2], tc[3]) :
   rs \in RulesAndSelections,
   flags \in {<<TRUE, FALSE, TRUE>>, <<FALSE, TRUE, FALSE>>},
   tc \in TraversalAndCap}

\* {'areas_enabled': ['a', 'b'], 'connector': '_',
\*  'area_a': {'type': 'custom', 'data': 'admin,user'},
\*  'area_b': {'type': 'dictionary', 'data': [1, 2]}}
CustomAndDictionary ==
  py_dict(<<
    item(<<"a", "r", "e", "a", "s", "_", "e", "n", "a", "b", "l", "e", "d">>,
         py_list(<<py_str(<<"a">>), py_str(<<"b">>)>>)),
    item(<<"c", "o", "n", "n", "e", "c", "t", "o", "r">>, py_str(<<"_">>)),
    item(<<"a", "r", "e", "a", "_", "a">>,
         py_dict(<<item(<<"t", "y", "p", "e">>,
                        py_str(<<"c", "u", "s", "t", "o", "m">>)),
                   item(<<"d", "a", "t", "a">>, py_str(AdminUser))>>)),
    item(<<"a", "r", "e", "a", "_", "b">>,
         py_dict(<<item(<<"t", "y", "p", "e">>,
                        py_str(<<"d", "i", "c", "t", "i", "o", "n", "a", "r",
                                 "y">>)),
                   item(<<"d", "a", "t", "a">>,
                        py_list(<<py_int(1), py_int(2)>>))>>))>>)

\* {'areas_enabled': ['c'], 'connector': '"\\',
\*  'area_c': {'type': 'number',
\*             'data': {'start': -1, 'end': 3, 'format': '{:02d}'}}}
NumberWithQuotedConnector ==
  py_dict(<<
    item(<<"a", "r", "e", "a", "s", "_", "e", "n", "a", "b", "l", "e", "d">>,
         py_list(<<py_str(<<"c">>)>>)),
    item(<<"c", "o", "n", "n", "e", "c", "t", "o", "r">>,
         py_str(<<"\"", "\\">>)),
    item(<<"a", "r", "e", "a", "_", "c">>,
         py_dict(<<item(<<"t", "y", "p", "e">>,
                        py_str(<<"n", "u", "m", "b", "e", "r">>)),
                   item(<<"d", "a", "t", "a">>,
                        py_dict(<<
                          item(<<"s", "t", "a", "r", "t">>, py_int(0 - 1)),
                          item(<<"e", "n", "d">>, py_int(3)),
                          item(<<"f", "o", "r", "m", "a", "t">>,
                               py_str(<<"{", ":", "0", "2", "d",
                                        "}">>))>>))>>))>>)

\* {'areas_enabled': [], 'connector': ''}
NoAreas ==
  py_dict(<<
    item(<<"a", "r", "e", "a", "s", "_", "e", "n", "a", "b", "l", "e", "d">>,
         py_list(<<>>)),
    item(<<"c", "o", "n", "n", "e", "c", "t", "o", "r">>, py_str(<<>>))>>)

\* {'areas_enabled': ['a'], 'connector': '-',
\*  'area_a': {'type': 'custom', 'data': 'login\npanel'}}
CustomWithNewline ==
  py_dict(<<
    item(<<"a", "r", "e", "a", "s", "_", "e", "n", "a", "b", "l", "e", "d">>,
         py_list(<<py_str(<<"a">>)>>)),
    item(<<"c", "o", "n", "n", "e", "c", "t", "o", "r">>, py_str(<<"-">>)),
    item(<<"a", "r", "e", "a", "_", "a">>,
         py_dict(<<item(<<"t", "y", "p", "e">>,
                        py_str(<<"c", "u", "s", "t", "o", "m">>)),
                   item(<<"d", "a", "t", "a">>, py_str(LoginPanel))>>))>>)

\* the dicts CombinationWidget.get_current_config builds
SavedCombinationConfigs ==
  {CustomAndDictionary, NumberWithQuotedConnector, NoAreas, CustomWithNewline}

(***************************************************************************)
(* Actions of the configuration persistence                                *)
(***************************************************************************)

\* a save or a load can follow the construction and every save
ConfigReady ==
  call.op \in {"init", "save_fuzzing_config", "save_combination_config"}

\* the rows of both tables
SavedRows == Len(db.fuzzing_configs.rows) + Len(db.combination_configs.rows)

\* d[key] for a key that is present
dict_item(d, key) == dict_get(d, key).val

\* FuzzingWidget.save_configuration: save_fuzzing_config with the rules and
\* the three toggles of the current configuration
SaveFuzzingConfig ==
  /\ ConfigReady
  /\ SavedRows < MaxConfigs
  /\ \E config \in MutationConfigs :
     \E created_at \in Times : \E updated_at \in Times :
     \E saved \in {save_fuzzing_config(
                     db.fuzzing_configs, ConfigName,
                     dict_item(config, <<"r", "e", "p", "l", "a", "c", "e",
                                         "m", "e", "n", "t", "_", "r", "u",
                                         "l", "e", "s">>),
                     dict_item(config, <<"p", "o", "s", "i", "t", "i", "o",
                                         "n", "_", "s", "w", "a", "p">>).n = 1,
                     dict_item(config, <<"p", "a", "r", "a", "m", "_", "i",
                                         "n", "j", "e", "c", "t", "i", "o",
                                         "n">>).n = 1,
                     dict_item(config, <<"p", "a", "t", "h", "_", "t", "r",
                                         "a", "v", "e", "r", "s", "a",
                                         "l">>).n = 1,
                     created_at, updated_at)} :
       /\ created_at <= updated_at
       /\ db' = [db EXCEPT !.fuzzing_configs = saved.table]
       /\ call' = [op |-> "save_fuzzing_config", config |-> config,
                   raised |-> saved.raised, result |-> saved.id]

LoadFuzzingConfig ==
  /\ ConfigReady
  /\ \E config_id \in 0..MaxConfigs :
       call' = [op |-> "load_fuzzing_config", config_id |-> config_id,
                result |-> load_fuzzing_config(db.fuzzing_configs, config_id)]
  /\ UNCHANGED db

SaveCombinationConfig ==
  /\ ConfigReady
  /\ SavedRows < MaxConfigs
  /\ \E config \in SavedCombinationConfigs :
     \E created_at \in Times : \E updated_at \in Times :
     \E saved \in {save_combination_config(db.combination_configs, ConfigName,
                                           config, created_at, updated_at)} :
       /\ created_at <= updated_at
       /\ db' = [db EXCEPT !.combination_configs = saved.table]
       /\ call' = [op |-> "save_combination_config", config |-> config,
                   raised |-> saved.raised, result |-> saved.id]

LoadCombinationConfig ==
  /\ ConfigReady
  /\ \E config_id \in 0..MaxConfigs :
       call' = [op |-> "load_combination_config", config_id |-> config_id,
                result |-> load_combination_config(db.combination_configs,
                                                   config_id)]
  /\ UNCHANGED db

NextConfig ==
  \/ SaveFuzzingConfig
  \/ LoadFuzzingConfig
  \/ SaveCombinationConfig
  \/ LoadCombinationConfig

\* the database as create_tables leaves it, without the two configuration
\* tables, or a database file that holds them
InitConfig ==
  /\ db \in {[words |-> <<>>, fuzzing_configs |-> t, combination_configs |-> t] :
             t \in {missing_table, empty_table}}
  /\ call = [op |-> "init"]

SpecConfig == InitConfig /\ [][NextConfig]_vars

(***************************************************************************)
(* Properties of the configuration persistence                             *)
(***************************************************************************)

\* every field of config is in loaded with the same value
Survives(config, loaded) ==
  /\ loaded.t = "dict"
  /\ \A i \in 1..Len(config.items) :
       dict_get(loaded, config.items[i].key)
         = [has |-> TRUE, val |-> config.items[i].value]

\* a combination configuration that was saved and is loaded by the id the
\* save returned comes back equal
CombinationConfigRoundTrip ==
  [][(/\ call.op = "save_combination_config"
      /\ ~call.raised
      /\ call'.op = "load_combination_config"
      /\ call'.config_id = call.result)
     => /\ call'.result.t = "dict"
        /\ dict_get(call'.result, <<"c", "o", "n", "f", "i", "g">>)
             = [has |-> TRUE, val |-> call.config]]_vars

\* C15: a configuration that was saved and is loaded by the id the save
\* returned comes back equal in every field: for a mutation configuration
\* the replacement rules, the selected rule keys, the three toggles, the
\* traversal depth, the custom traversal payloads and max_results; for a
\* combination configuration the whole configuration
C15_ConfigRoundTrip ==
  [][/\ (/\ call.op = "save_fuzzing_config"
         /\ ~call.raised
         /\ call'.op = "load_fuzzing_config"
         /\ call'.config_id = call.result)
        => Survives(call.config, call'.result)
     /\ (/\ call.op = "save_combination_config"
         /\ ~call.raised
         /\ call'.op = "load_combination_config"
         /\ call'.config_id = call.result)
        => Survives(call.config,
                    dict_item(call'.result, <<"c", "o", "n", "f", "i", "g">>))
    ]_vars

(***************************************************************************)
(* CombinationWorker (src/gui/combination_widget.py): the thread that      *)
(* estimates, checks the ceiling and generates                             *)
(***************************************************************************)

\* if estimated_count > 100000
SafetyCeiling == 100000

\* len(areas_data[key]) as generate_combinations resolves the area under
\* its key (lines 164-199), 0 when the key is not assigned; the length of
\* a number area is len(range(start, end + 1))
resolved_length(config, rows, key) ==
  IF ~InList(key, config.areas_enabled) THEN 0
  ELSE IF key = "a" /\ config.area_a.type \in {"custom", "text"}
  THEN area_count(config.area_a, rows)
  ELSE IF key = "b" /\ config.area_b.type \in {"dictionary", "custom"}
  THEN area_count(config.area_b, rows)
  ELSE IF key = "c" /\ config.area_c.type \in {"date", "custom"}
  THEN area_count(config.area_c, rows)
  ELSE IF key = "c" /\ config.area_c.type = "number"
  THEN Max2(0, config.area_c.end - config.area_c.start + 1)
  ELSE 0

\* lines 201-216: len(list(generate_combinations(config))), the product of
\* the lengths of the non-empty areas, nothing when every area is empty
generated_count(config, rows) ==
  IF \A key \in AreaKeys : resolved_length(config, rows, key) = 0 THEN 0
  ELSE Max2(1, resolved_length(config, rows, "a"))
       * Max2(1, resolved_length(config, rows, "b"))
       * Max2(1, resolved_length(config, rows, "c"))

\* the number of strings is the length of every list the generator yields
GeneratedCountIsLength ==
  call.op = "generate_combinations" =>
    Len(call.result) = generated_count(call.config, db.words)

\* the configurations given to the worker: areas around the ceiling
WorkerAreaAOptions ==
  {AbsentArea, CustomArea(AdminUser), CustomArea(<<" ">>), TextArea(<<>>)}

WorkerAreaBOptions == {AbsentArea, CustomArea(LoginPanel), DictionaryArea(<<1>>)}

WorkerAreaCOptions ==
  {NumberArea(1, 100001, 0), NumberArea(1, 100000, 0),
   NumberArea(1, 50001, 0), NumberArea(3, 1, 0),
   DateArea(2020, 2021, "YYYY")}

WorkerEnabledOptions ==
  {<<"a", "b", "c">>, <<"c", "a">>, <<"c">>, <<"a", "b">>}

WorkerConfigs ==
  [area_a : WorkerAreaAOptions, area_b : WorkerAreaBOptions,
   area_c : WorkerAreaCOptions, connector : {<<"_">>},
   areas_enabled : WorkerEnabledOptions]

IsWorker == call.op = "CombinationWorker"

\* CombinationWorker(config).start(): run() up to the estimate
\* (lines 54-55)
WorkerStart ==
  /\ Ready
  /\ \E config \in WorkerConfigs :
       call' = [op |-> "CombinationWorker", pc |-> "estimate",
                config |-> config, estimated_count |-> 0,
                signals |-> <<"progress 10">>,
                generate_called |-> FALSE, generated |-> 0]
  /\ UNCHANGED db

\* lines 57-58
WorkerEstimate ==
  /\ IsWorker
  /\ call.pc = "estimate"
  /\ call' = [call EXCEPT
       !.estimated_count = estimate_combination_count(call.config, db.words),
       !.signals = Append(@, "progress 20"),
       !.pc = "check"]
  /\ UNCHANGED db

\* lines 60-62: over the ceiling, the error signal and return
WorkerReject ==
  /\ IsWorker
  /\ call.pc = "check"
  /\ call.estimated_count > SafetyCeiling
  /\ call' = [call EXCEPT !.signals = Append(@, "error_occurred"),
                          !.pc = "returned"]
  /\ UNCHANGED db

\* line 64
WorkerAccept ==
  /\ IsWorker
  /\ call.pc = "check"
  /\ ~(call.estimated_count > SafetyCeiling)
  /\ call' = [call EXCEPT !.signals = Append(@, "progress 30"),
                          !.pc = "generate"]
  /\ UNCHANGED db

\* lines 67-70: list(generate_combinations(config)), then the result
WorkerGenerate ==
  /\ IsWorker
  /\ call.pc = "generate"
  /\ call' = [call EXCEPT
       !.generate_called = TRUE,
       !.generated = generated_count(call.config, db.words),
       !.signals = @ \o <<"progress 90", "result_ready">>,
       !.pc = "returned"]
  /\ UNCHANGED db

NextWorker ==
  \/ WorkerStart
  \/ WorkerEstimate
  \/ WorkerReject
  \/ WorkerAccept
  \/ WorkerGenerate

SpecWorker == Init /\ [][NextWorker]_vars

\* C16: in every run of the worker, when the number of combinations
\* generate_combinations produces for the configuration exceeds the ceiling
\* of 100,000, generate_combinations is never called and the run ends with
\* the error signal; generate_combinations is started only when the real
\* product size is at most the ceiling
C16_CeilingBeforeGeneration ==
  IsWorker =>
    /\ generated_count(call.config, db.words) > SafetyCeiling =>
         /\ call.pc # "generate"
         /\ ~call.generate_called
         /\ call.pc = "returned" => InList("error_occurred", call.signals)
    /\ call.generate_called =>
         generated_count(call.config, db.words) <= SafetyCeiling

\* the worker never generates when its own estimate is over the ceiling
EstimateOverCeilingRejects ==
  (IsWorker /\ call.pc \in {"generate", "returned"}
            /\ call.estimated_count > SafetyCeiling) =>
    ~call.generate_called /\ InList("error_occurred", call.signals)

(***************************************************************************)
(* Case transformer (src/core/case_transformer.py), for ASCII text; a      *)
(* randomized transformation is the set of the strings it can return       *)
(***************************************************************************)

\* self.word_separators
word_separators == {" ", "_", "-", ".", "/", "\\", ":", ";", "|"}

\* the non-empty pieces of re.split('[separators]+', text), word being the
\* piece under construction
RECURSIVE words_from(_, _)
words_from(text, word) ==
  IF Len(text) = 0 THEN (IF Len(word) > 0 THEN <<word>> ELSE <<>>)
  ELSE IF text[1] \in word_separators
  THEN (IF Len(word) > 0 THEN <<word>> ELSE <<>>)
       \o words_from(Tail(text), <<>>)
  ELSE words_from(Tail(text), Append(word, text[1]))

split_into_words(text) == words_from(text, <<>>)

\* char.upper() and char.lower()
UpperChar(c) ==
  IF Ord(c) >= 97 /\ Ord(c) <= 122 THEN Chr(Ord(c) - 32) ELSE c

LowerChar(c) == IF IsUpper(c) THEN Chr(Ord(c) + 32) ELSE c

\* str.upper()
Upper(s) == [i \in 1..Len(s) |-> UpperChar(s[i])]

\* str.capitalize()
capitalize(s) ==
  IF Len(s) = 0 THEN s ELSE <<UpperChar(s[1])>> \o Lower(Tail(s))

\* probability: float = 0.5, as a fraction
DefaultProbability == [num |-> 1, den |-> 2]

\* the outcomes of random.random() < probability for random() in [0, 1):
\* TRUE = upper case
upper_choices(probability) ==
  {b \in BOOLEAN : IF b THEN probability.num > 0
                   ELSE probability.num < probability.den}

\* the character in the case chosen
cased(c, upper) == IF upper THEN UpperChar(c) ELSE LowerChar(c)

\* random_char_case(text, probability)
random_char_case(text, probability) ==
  {[i \in 1..Len(text) |->
      IF IsAlpha(text[i]) THEN cased(text[i], upper[i]) ELSE text[i]] :
   upper \in [1..Len(text) -> upper_choices(probability)]}

\* the first index of the run of letters that holds index i
RECURSIVE word_start(_, _)
word_start(text, i) ==
  IF i > 1 /\ IsAlpha(text[i - 1]) THEN word_start(text, i - 1) ELSE i

\* random_word_case(text, probability): one draw for every run of letters
random_word_case(text, probability) ==
  {[i \in 1..Len(text) |->
      IF IsAlpha(text[i]) THEN cased(text[i], upper[word_start(text, i)])
      ELSE text[i]] :
   upper \in [1..Len(text) -> upper_choices(probability)]}

\* first_letter_random(text, probability): one draw for the first letter,
\* the other letters in lower case
first_letter_random(text, probability) ==
  {[i \in 1..Len(text) |->
      IF IsAlpha(text[i])
      THEN cased(text[i],
                 upper /\ \A j \in 1..(i - 1) : ~IsAlpha(text[j]))
      ELSE text[i]] :
   upper \in upper_choices(probability)}

\* the number of letters among the first n characters
RECURSIVE letters_before(_, _)
letters_before(text, n) ==
  IF n = 0 THEN 0
  ELSE letters_before(text, n - 1) + (IF IsAlpha(text[n]) THEN 1 ELSE 0)

\* alternating_case(text, start_upper)
alternating_case(text, start_upper) ==
  [i \in 1..Len(text) |->
     IF IsAlpha(text[i])
     THEN cased(text[i], (letters_before(text, i - 1) % 2 = 0) = start_upper)
     ELSE text[i]]

\* [word.capitalize() for word in words]
capitalized(words) == [i \in 1..Len(words) |-> capitalize(words[i])]

\* camel_case(text)
camel_case_of(text, words) ==
  IF Len(words) = 0 THEN text
  ELSE Lower(words[1]) \o ConcatAll(capitalized(Tail(words)))

camel_case(text) == camel_case_of(text, split_into_words(text))

\* pascal_case(text)
pascal_case(text) == ConcatAll(capitalized(split_into_words(text)))

\* [word.upper() for word in words]
uppered(words) == [i \in 1..Len(words) |-> Upper(words[i])]

\* snake_case_upper(text)
snake_case_upper(text) == Join(uppered(split_into_words(text)), <<"_">>)

\* kebab_case_upper(text)
kebab_case_upper(text) == Join(uppered(split_into_words(text)), <<"-">>)

\* the values of CaseStrategy
RandomStrategies == {"random_char", "random_word", "first_letter"}

DeterministicStrategies ==
  {"alternating", "camel_case", "pascal_case", "snake_case_upper",
   "kebab_case_upper"}

CaseStrategy == RandomStrategies \cup DeterministicStrategies

\* **kwargs with the defaults of kwargs.get
DefaultKwargs == [probability |-> DefaultProbability, start_upper |-> TRUE]

\* transform_text(text, strategy, **kwargs): the strings it can return
transform_text(text, strategy, kwargs) ==
  IF strategy = "random_char" THEN random_char_case(text, kwargs.probability)
  ELSE IF strategy = "random_word"
  THEN random_word_case(text, kwargs.probability)
  ELSE IF strategy = "first_letter"
  THEN first_letter_random(text, kwargs.probability)
  ELSE IF strategy = "alternating"
  THEN {alternating_case(text, kwargs.start_upper)}
  ELSE IF strategy = "camel_case" THEN {camel_case(text)}
  ELSE IF strategy = "pascal_case" THEN {pascal_case(text)}
  ELSE IF strategy = "snake_case_upper" THEN {snake_case_upper(text)}
  ELSE IF strategy = "kebab_case_upper" THEN {kebab_case_upper(text)}
  ELSE {text}

\* lines 287-291: the transformed words that differ from their word
appended_variants(words, transformed) ==
  {transformed[i] : i \in {j \in 1..Len(words) : transformed[j] # words[j]}}

\* lines 282-293: set(result) for one choice of the transformed words
word_list_set(words, keep_original, transformed) ==
  (IF keep_original THEN Range(words) ELSE {})
  \cup appended_variants(words, transformed)

\* transform_word_list(words, strategy, keep_original, **kwargs): every list
\* it can return, list(set(result)) in any order
transform_word_list(words, strategy, keep_original, kwargs) ==
  UNION {Orders(word_list_set(words, keep_original, transformed)) :
         transformed \in
           {t \in [1..Len(words) ->
                     UNION {transform_text(words[i], strategy, kwargs) :
                            i \in 1..Len(words)}] :
              \A i \in 1..Len(words) :
                t[i] \in transform_text(words[i], strategy, kwargs)}}

(***************************************************************************)
(* Inputs and actions of the case transformer                              *)
(***************************************************************************)

\* "api-test"
ApiTest == <<"a", "p", "i", "-", "t", "e", "s", "t">>

\* "user_login"
UserLogin == <<"u", "s", "e", "r", "_", "l", "o", "g", "i", "n">>

\* the texts given to transform_text
CaseTexts ==
  {<<>>, <<"-">>, <<"_", " ">>, <<"a">>, <<"a", "b">>, <<"a", "-", "b">>,
   <<"A", "b">>, <<"a", "_", "B", ".", "c">>, <<"1">>, <<"-", "a", "1">>,
   <<"a", "B", "-", "-", "C", "d">>, ApiTest, UserLogin}

\* probability 0, 0.5 and 1
ProbabilityOptions ==
  {[num |-> 0, den |-> 1], DefaultProbability, [num |-> 1, den |-> 1]}

KwargsOptions ==
  [probability : ProbabilityOptions, start_upper : BOOLEAN]

\* the longest list given to transform_word_list
MaxCaseWords == 2

\* the words of those lists
CaseWordPool ==
  {<<"a", "b">>, <<"a", "-", "b">>, <<"A">>, <<"-">>, <<"x", "1">>}

CaseWordLists == UNION {[1..n -> CaseWordPool] : n \in 0..MaxCaseWords}

TransformText ==
  /\ Ready
  /\ \E text \in CaseTexts : \E strategy \in CaseStrategy :
     \E kwargs \in KwargsOptions :
     \E result \in transform_text(text, strategy, kwargs) :
       call' = [op |-> "transform_text", text |-> text,
                strategy |-> strategy, kwargs |-> kwargs, result |-> result]
  /\ UNCHANGED db

TransformWordList ==
  /\ Ready
  /\ \E words \in CaseWordLists : \E strategy \in CaseStrategy :
     \E keep_original \in BOOLEAN :
     \E result \in transform_word_list(words, strategy, keep_original,
                                       DefaultKwargs) :
       call' = [op |-> "transform_word_list", words |-> words,
                strategy |-> strategy, keep_original |-> keep_original,
                result |-> result]
  /\ UNCHANGED db

NextCase ==
  \/ TransformText
  \/ TransformWordList

SpecCase == InitFuzz /\ [][NextCase]_vars

(***************************************************************************)
(* generate_random_variants: the loop of lines 338-353, one iteration a    *)
(* step                                                                    *)
(***************************************************************************)

\* the largest count given to generate_random_variants
MaxCount == 2

\* the texts given to generate_random_variants: without letters, and with
\* one, two and three letters
VariantTexts ==
  {<<>>, <<"1", "-">>, <<"a">>, <<"a", "b">>, <<"a", "-", "B">>,
   <<"a", "b", "c">>}

IsVariants == call.op = "generate_random_variants"

\* max_attempts = count * 10
max_attempts(count) == count * 10

\* the loop condition of line 338
loop_condition(variants, count, attempts) ==
  Cardinality(variants) < count + 1 /\ attempts < max_attempts(count)

\* attempts += 1 left out
attempts_not_counted(attempts) == attempts

\* attempts += 1
attempts_incremented(attempts) == attempts + 1

\* lines 333-336: variants = set([text]), attempts = 0
VariantsStart ==
  /\ Ready
  /\ \E text \in VariantTexts : \E count \in (0 - 1)..MaxCount :
     \E strategy \in CaseStrategy :
       call' = [op |-> "generate_random_variants", pc |-> "loop",
                text |-> text, count |-> count, strategy |-> strategy,
                variants |-> {text}, attempts |-> 0, transformations |-> 0,
                result |-> <<>>]
  /\ UNCHANGED db

\* lines 339-344, 351-352: an iteration with a randomized strategy
RandomAttempt ==
  /\ IsVariants
  /\ call.pc = "loop"
  /\ loop_condition(call.variants, call.count, call.attempts)
  /\ call.strategy \in RandomStrategies
  /\ \E variant \in transform_text(call.text, call.strategy, DefaultKwargs) :
       call' = [call EXCEPT
                  !.variants = @ \cup {variant},
                  !.attempts = attempts_incremented(@),
                  !.transformations = @ + 1]
  /\ UNCHANGED db

\* lines 345-349: the iteration with any other strategy, ended by break
DeterministicOnce ==
  /\ IsVariants
  /\ call.pc = "loop"
  /\ loop_condition(call.variants, call.count, call.attempts)
  /\ call.strategy \notin RandomStrategies
  /\ \E variant \in transform_text(call.text, call.strategy, DefaultKwargs) :
       call' = [call EXCEPT
                  !.variants = @ \cup {variant},
                  !.transformations = @ + 1,
                  !.pc = "break"]
  /\ UNCHANGED db

\* line 355: return list(variants)
VariantsReturn ==
  /\ IsVariants
  /\ \/ call.pc = "break"
     \/ /\ call.pc = "loop"
        /\ ~loop_condition(call.variants, call.count, call.attempts)
  /\ \E result \in Orders(call.variants) :
       call' = [call EXCEPT !.pc = "returned", !.result = result]
  /\ UNCHANGED db

NextVariants ==
  \/ VariantsStart
  \/ RandomAttempt
  \/ DeterministicOnce
  \/ VariantsReturn

\* the thread that called generate_random_variants keeps running
SpecVariants ==
  /\ InitFuzz
  /\ [][NextVariants]_vars
  /\ WF_vars(RandomAttempt)
  /\ WF_vars(DeterministicOnce)
  /\ WF_vars(VariantsReturn)

(***************************************************************************)
(* Properties of the case transformer                                      *)
(***************************************************************************)

Returned_variants == IsVariants /\ call.pc = "returned"

\* the attempts made are the transformations of a randomized strategy, and
\* never more than count * 10 (none for a count below 1)
AttemptsBounded ==
  IsVariants =>
    /\ call.attempts <= Max2(0, call.count * 10)
    /\ call.strategy \in RandomStrategies =>
         call.transformations = call.attempts
    /\ call.strategy \notin RandomStrategies => call.attempts = 0

\* the list returned holds the text and the distinct variants found, once
\* each, however few
ReturnsVariantsFound ==
  Returned_variants =>
    /\ Range(call.result) = call.variants
    /\ Len(call.result) = Cardinality(call.variants)
    /\ call.text \in call.variants
    /\ Len(call.result) <= Max2(1, call.count + 1)

\* C17 as stated: the call always returns; a randomized strategy makes at
\* most count * 10 attempts and returns the distinct variants found, and a
\* deterministic strategy performs exactly one transformation, for every
\* count
C17_DeterministicTransformsOnce ==
  /\ [](AttemptsBounded /\ ReturnsVariantsFound)
  /\ []((Returned_variants /\ call.strategy \notin RandomStrategies) =>
          call.transformations = 1)
  /\ [](IsVariants => <>Returned_variants)

\* C17: the call always returns; a randomized strategy makes at most
\* count * 10 attempts and returns the distinct variants found, and a
\* deterministic strategy performs exactly one transformation when count is
\* at least 1 and none when count is below 1
C17_VariantsTerminate ==
  /\ [](AttemptsBounded /\ ReturnsVariantsFound)
  /\ []((Returned_variants /\ call.strategy \notin RandomStrategies) =>
          call.transformations = IF call.count >= 1 THEN 1 ELSE 0)
  /\ [](IsVariants => <>Returned_variants)

\* a text without letters has used all its count * 10 attempts and
\* returned fewer than count variants
C17_Witness ==
  /\ Returned_variants
  /\ call.strategy = "random_char"
  /\ call.text = <<"1", "-">>
  /\ call.count = MaxCount
  /\ call.attempts = MaxCount * 10
  /\ call.result = <<call.text>>

\* [c for c in text if c in word_separators] is empty
SeparatorFree(text) == \A i \in 1..Len(text) : text[i] \notin word_separators

\* the words as camel case (TRUE) or Pascal case capitalizes them
CapitalizedWords(words, camel) ==
  [i \in 1..Len(words) |->
     IF camel /\ i = 1 THEN Lower(words[i])
     ELSE <<UpperChar(words[i][1])>> \o Lower(Tail(words[i]))]

\* C18: for every text, camel_case(text) and pascal_case(text) contain no
\* separator and are the concatenation of the words of the word-split, each
\* capitalized (the first lower-cased for camel case); snake_case_upper is
\* the upper-cased words joined by '_', 'api-test' giving 'API_TEST'
C18_SeparatorFreeWords ==
  call.op = "transform_text" =>
    /\ call.strategy = "camel_case" =>
         /\ SeparatorFree(call.result)
         /\ call.result
              = ConcatAll(CapitalizedWords(split_into_words(call.text), TRUE))
    /\ call.strategy = "pascal_case" =>
         /\ SeparatorFree(call.result)
         /\ call.result
              = ConcatAll(CapitalizedWords(split_into_words(call.text), FALSE))
    /\ call.strategy = "snake_case_upper" =>
         /\ call.result = Join(uppered(split_into_words(call.text)), <<"_">>)
         /\ call.text = ApiTest =>
              call.result = <<"A", "P", "I", "_", "T", "E", "S", "T">>

\* C18 for every text that has a word
WithWordsSeparatorFree ==
  (call.op = "transform_text" /\ Len(split_into_words(call.text)) > 0) =>
    C18_SeparatorFreeWords

\* C19: transform_word_list returns a list without duplicates whose set is
\* the transform of every input word, plus every input word when
\* keep_original is true; the transform of a word is present even when it
\* equals the word
C19_EveryTransformPresent ==
  call.op = "transform_word_list" =>
    /\ \A i, j \in 1..Len(call.result) :
         call.result[i] = call.result[j] => i = j
    /\ \E transformed \in [1..Len(call.words) -> Range(call.result)] :
         /\ \A i \in 1..Len(call.words) :
              transformed[i]
                \in transform_text(call.words[i], call.strategy, DefaultKwargs)
         /\ Range(call.result)
              = (IF call.keep_original THEN Range(call.words) ELSE {})
                \cup Range(transformed)

\* C19 where the originals are kept
KeptOriginalsEveryTransformPresent ==
  (call.op = "transform_word_list" /\ call.keep_original) =>
    C19_EveryTransformPresent

(***************************************************************************)
(* Number areas: generate_number_sequence and their estimate               *)
(***************************************************************************)

\* the largest start and end of a number area
MaxNumber == 4

\* start and end: from -2, and past 9 so that a second digit appears
NumberBounds == (0 - 2)..MaxNumber \cup {9, 10, 11}

\* '{:d}', '{:02d}' and '{:03d}'
NumberWidths == {0, 2, 3}

\* {'area_c': {'type': 'number', 'data': {...}}, 'areas_enabled': ['c']}
NumberOnly(start, end, width) ==
  [area_a |-> AbsentArea, area_b |-> AbsentArea,
   area_c |-> NumberArea(start, end, width), connector |-> <<"_">>,
   areas_enabled |-> <<"c">>]

GenerateNumberSequence ==
  /\ Ready
  /\ \E start \in NumberBounds : \E end \in NumberBounds :
     \E width \in NumberWidths :
       call' = [op |-> "generate_number_sequence", start |-> start,
                end |-> end, width |-> width,
                result |-> generate_number_sequence(start, end, width)]
  /\ UNCHANGED db

\* list(generate_combinations(config)) for a number area alone
GenerateNumberArea ==
  /\ Ready
  /\ \E start \in NumberBounds : \E end \in NumberBounds :
     \E width \in NumberWidths :
     \E result \in generate_combinations(NumberOnly(start, end, width),
                                         db.words) :
       call' = [op |-> "generate_number_area", start |-> start, end |-> end,
                width |-> width, result |-> result]
  /\ UNCHANGED db

\* estimate_combination_count(config) for a number area alone
EstimateNumberArea ==
  /\ Ready
  /\ \E start \in NumberBounds : \E end \in NumberBounds :
     \E width \in NumberWidths :
       call' = [op |-> "estimate_number_area", start |-> start, end |-> end,
                width |-> width,
                result |-> estimate_combination_count(
                             NumberOnly(start, end, width), db.words)]
  /\ UNCHANGED db

NextNumber ==
  \/ GenerateNumberSequence
  \/ GenerateNumberArea
  \/ EstimateNumberArea

SpecNumber == InitFuzz /\ [][NextNumber]_vars

\* int(s) for a string of digits
RECURSIVE DigitsValue(_)
DigitsValue(s) ==
  IF Len(s) = 0 THEN 0
  ELSE 10 * DigitsValue(SubSeq(s, 1, Len(s) - 1)) + (Ord(s[Len(s)]) - 48)

\* int(s) for an optional '-' and digits
IntValue(s) ==
  IF Len(s) > 0 /\ s[1] = "-" THEN 0 - DigitsValue(Tail(s))
  ELSE DigitsValue(s)

\* s is an optional '-' and at least one digit, at least width characters,
\* padded with zeros only up to the width
WellFormatted(s, width) ==
  /\ Len(s) >= Max2(1, width)
  /\ \A i \in 1..Len(s) : s[i] \in DigitSet \/ (i = 1 /\ s[i] = "-")
  /\ Len(s) > width => Len(s) = Len(IntStr(IntValue(s)))

\* C20: a number area resolves to the formatted integers start, start + 1,
\* ..., end in ascending order (1, 3, '{:02d}' gives ['01', '02', '03']),
\* to the empty list when end < start, and estimate_combination_count
\* counts it as end - start + 1 when that is positive, as empty otherwise
C20_NumberRange ==
  /\ call.op \in {"generate_number_sequence", "generate_number_area"} =>
       /\ Len(call.result) = IF call.end < call.start THEN 0
                             ELSE call.end - call.start + 1
       /\ \A i \in 1..Len(call.result) :
            /\ IntValue(call.result[i]) = call.start + i - 1
            /\ WellFormatted(call.result[i], call.width)
       /\ (call.start = 1 /\ call.end = 3 /\ call.width = 2) =>
            call.result = <<<<"0", "1">>, <<"0", "2">>, <<"0", "3">>>>
  /\ call.op = "estimate_number_area" =>
       call.result = IF call.end - call.start + 1 > 0
                     THEN call.end - call.start + 1 ELSE 0

\* the example of the claim has been resolved
C20_Witness ==
  /\ call.op = "generate_number_sequence"
  /\ call.start = 1 /\ call.end = 3 /\ call.width = 2
  /\ call.result = <<<<"0", "1">>, <<"0", "2">>, <<"0", "3">>>>

(***************************************************************************)
(* Further properties of the deduplicator                                  *)
(***************************************************************************)

\* the threshold a similarity call compares with
threshold_of(threshold) ==
  IF threshold.has THEN threshold.val ELSE SIMILARITY_THRESHOLD

\* accepted is the set of input positions whose words make up result, in
\* input order
AcceptedAs(words, accepted, result) ==
  /\ Cardinality(accepted) = Len(result)
  /\ result = Pick(words, accepted, 1)

\* C21: similarity dedup accepts a candidate exactly when its similarity to
\* every already accepted string is below the threshold: no output element
\* has similarity >= threshold to an element before it, and every removed
\* input element has similarity >= threshold to an accepted element that
\* precedes it in the input
C21_SimilarityAcceptance ==
  call.op = "similarity_duplicate" =>
    \E accepted \in SUBSET (1..Len(call.words)) :
      /\ AcceptedAs(call.words, accepted, call.result)
      /\ \A k \in accepted : \A e \in accepted :
           e < k => ~similarity_at_least(call.words[k], call.words[e],
                                         threshold_of(call.threshold))
      /\ \A k \in (1..Len(call.words)) \ accepted :
           \E e \in accepted :
             /\ e < k
             /\ similarity_at_least(call.words[k], call.words[e],
                                    threshold_of(call.threshold))
      /\ \A i \in 1..Len(call.result) : \A j \in 1..(i - 1) :
           ~similarity_at_least(call.result[i], call.result[j],
                                threshold_of(call.threshold))

\* a word similar to the first accepted word, not to the last one, has been
\* removed
C21_Witness ==
  /\ call.op = "similarity_duplicate"
  /\ call.words = <<<<"a">>, <<"b">>, <<"A">>>>
  /\ ~call.threshold.has
  /\ call.result = <<<<"a">>, <<"b">>>>

matched_text(word, regex) ==
  IF Len(regex.atoms) = 0
  THEN Without(word, (Range(AsciiLow) \cup Range(AsciiHigh) \cup Whitespace)
                     \ regex.class)
  ELSE LET starts == match_starts(word, regex.atoms, 1)
       IN ConcatAll([m \in 1..Len(starts) |->
                       SubSeq(word, starts[m],
                              starts[m] + Len(regex.atoms) - 1)])

\* result keeps the first word of each key, in input order
FirstOfEachKeyIs(words, keys, result) ==
  result = Pick(words, {i \in 1..Len(words) :
                          \A j \in 1..(i - 1) : keys[j] # keys[i]}, 1)

\* C23: with an invalid regular expression pattern dedup raises no error and
\* returns what exact dedup returns; with a valid one it keeps the first
\* string of each key, the key being the lower-cased concatenation of all
\* matches in the string
C23_PatternKeys ==
  /\ call.op # "pattern_duplicate_raised"
  /\ call.op = "pattern_duplicate" =>
       IF compile(call.pattern).error
       THEN call.result \in exact_duplicate(call.words)
       ELSE FirstOfEachKeyIs(call.words,
              [i \in 1..Len(call.words) |->
                 Lower(matched_text(call.words[i], compile(call.pattern)))],
              call.result)

\* the same, for the patterns without capture groups
PatternKeysWithoutGroups ==
  (call.op \in {"pattern_duplicate", "pattern_duplicate_raised"}
   /\ call.pattern \in {"None", "[0-9]+", "("}) => C23_PatternKeys

(***************************************************************************)
(* analyze_duplicates and suggest_dedup_strategy.  A removal rate is a     *)
(* Python float: a binary64 value, here zero or the 53 bits of its         *)
(* significand (the leading 1 first) and the power of two of the leading   *)
(* bit.                                                                    *)
(***************************************************************************)

\* the bits of the significand of a binary64 value
SignificandBits == 53

float_zero == [zero |-> TRUE, exp |-> 0, bits |-> <<>>]

\* the bits of the natural number n, the most significant first
RECURSIVE bits_of(_)
bits_of(n) == IF n = 0 THEN <<>> ELSE bits_of(n \div 2) \o <<n % 2>>

\* bits + 1 on a sequence of bits that are not all 1
incremented(bits) ==
  LET last == CHOOSE z \in 1..Len(bits) :
                bits[z] = 0 /\ \A i \in (z + 1)..Len(bits) : bits[i] = 1
  IN [i \in 1..Len(bits) |->
        IF i < last THEN bits[i] ELSE IF i = last THEN 1 ELSE 0]

\* round-half-to-even of the value whose bits (leading 1 first, the leading
\* bit worth 2^exp) are followed by a nonzero tail exactly when sticky
rounded(bits, exp, sticky) ==
  LET kept == SubSeq(bits \o [i \in 1..SignificandBits |-> 0], 1,
                     SignificandBits)
      guard == IF Len(bits) > SignificandBits THEN bits[SignificandBits + 1]
               ELSE 0
      tail == sticky \/ \E i \in (SignificandBits + 2)..Len(bits) :
                          bits[i] = 1
      up == guard = 1 /\ (tail \/ kept[SignificandBits] = 1)
      carries == \A i \in 1..SignificandBits : kept[i] = 1
  IN IF ~up THEN [zero |-> FALSE, exp |-> exp, bits |-> kept]
     ELSE IF carries
     THEN [zero |-> FALSE, exp |-> exp + 1,
           bits |-> <<1>> \o [i \in 1..(SignificandBits - 1) |-> 0]]
     ELSE [zero |-> FALSE, exp |-> exp, bits |-> incremented(kept)]

\* 2^i mod n, by repeated squaring
RECURSIVE pow2mod(_, _)
pow2mod(i, n) ==
  IF i = 0 THEN 1 % n
  ELSE IF i % 2 = 0 THEN (pow2mod(i \div 2, n) * pow2mod(i \div 2, n)) % n
  ELSE (2 * pow2mod(i - 1, n)) % n

\* the first count bits of the binary fraction rem / n (rem < n), followed
\* by the remainder left
quotient_bits(rem, n, count) ==
  [i \in 1..(count + 1) |->
     IF i <= count THEN (2 * ((pow2mod(i - 1, n) * rem) % n)) \div n
     ELSE (pow2mod(count, n) * rem) % n]

\* the least k with r * 2^k >= n, for 0 < r <= n
RECURSIVE leading_shift(_, _)
leading_shift(r, n) == IF r >= n THEN 0 ELSE 1 + leading_shift(2 * r, n)

\* r * 2^k
RECURSIVE shifted(_, _)
shifted(r, k) == IF k = 0 THEN r ELSE shifted(2 * r, k - 1)

\* the float r / n of two ints, 0 <= r <= n and n > 0: correctly rounded
true_divide(r, n) ==
  IF r = 0 THEN float_zero
  ELSE LET k == leading_shift(r, n)
           q == quotient_bits(shifted(r, k) - n, n, SignificandBits)
       IN rounded(<<1>> \o SubSeq(q, 1, SignificandBits), 0 - k,
                  q[SignificandBits + 1] # 0)

\* the bits of a limb
LimbBits == 20

\* the natural number of a sequence of at most LimbBits bits
RECURSIVE value_of(_)
value_of(bits) ==
  IF Len(bits) = 0 THEN 0
  ELSE 2 * value_of(SubSeq(bits, 1, Len(bits) - 1)) + bits[Len(bits)]

\* the low LimbBits bits of n
limb_bits(n) == [i \in 1..LimbBits |-> (n \div 2^(LimbBits - i)) % 2]

\* the bits of bits * k for SignificandBits bits and a small k, limb by limb
\* from the low end
times_bits(bits, k) ==
  LET low == k * value_of(SubSeq(bits, SignificandBits - LimbBits + 1,
                                 SignificandBits))
      middle == k * value_of(SubSeq(bits, SignificandBits - 2 * LimbBits + 1,
                                    SignificandBits - LimbBits))
                + low \div 2^LimbBits
      high == k * value_of(SubSeq(bits, 1, SignificandBits - 2 * LimbBits))
              + middle \div 2^LimbBits
  IN bits_of(high) \o limb_bits(middle) \o limb_bits(low)

\* the float x * k for a float x and a small positive int k
float_times(x, k) ==
  IF x.zero THEN float_zero
  ELSE rounded(times_bits(x.bits, k),
               x.exp + Len(times_bits(x.bits, k)) - SignificandBits, FALSE)

\* a > b for two sequences of bits of one length
bits_greater(a, b) ==
  \E i \in 1..Len(a) :
    a[i] > b[i] /\ \A j \in 1..(i - 1) : a[j] = b[j]

\* the int t as the bits of a significand
significand_of(t) ==
  bits_of(t) \o [i \in 1..(SignificandBits - Len(bits_of(t))) |-> 0]

\* x >= t in place of x > t
float_greater_or_equal(x, t) ==
  /\ ~x.zero
  /\ \/ x.exp > Len(bits_of(t)) - 1
     \/ /\ x.exp = Len(bits_of(t)) - 1
        /\ (bits_greater(x.bits, significand_of(t))
            \/ x.bits = significand_of(t))

\* x > t for a float x >= 0 and a positive int t
float_greater(x, t) ==
  /\ ~x.zero
  /\ \/ x.exp > Len(bits_of(t)) - 1
     \/ /\ x.exp = Len(bits_of(t)) - 1
        /\ bits_greater(x.bits, significand_of(t))

\* lines 356-366: (len(words) - len(unique_words)) / len(words) * 100, and 0
\* when the division raises ZeroDivisionError
removal_rate(words, unique_words) ==
  IF Len(words) = 0 THEN float_zero
  ELSE float_times(true_divide(Len(words) - Len(unique_words), Len(words)),
                   100)

\* the one list of a strategy that returns one list
only(lists) == CHOOSE list \in lists : TRUE

\* analysis['strategies'][name]['removal_rate'] for the three strategies
\* that suggest_dedup_strategy reads
analyze_duplicates(words) ==
  [exact |-> removal_rate(words, only(exact_duplicate(words))),
   case_insensitive |->
     removal_rate(words, only(case_insensitive_duplicate(words))),
   similarity |->
     removal_rate(words,
       only(similarity_duplicate(words,
              [has |-> TRUE, val |-> SIMILARITY_THRESHOLD])))]

\* lines 421-436, for the removal rates of the analysis
suggested(analysis) ==
  IF float_greater(analysis.exact, 20) THEN "exact"
  ELSE IF float_greater(analysis.case_insensitive, 10)
  THEN "case_insensitive"
  ELSE IF float_greater(analysis.similarity, 5) THEN "similarity"
  ELSE "exact"

suggest_dedup_strategy(words) == suggested(analyze_duplicates(words))

\* the longest list whose strategy is suggested
MaxSuggested == 5

SuggestPool == {<<"a">>, <<"A">>, <<"a", "b">>, <<"a", "b", "c">>}

SuggestLists == UNION {[1..n -> SuggestPool] : n \in 0..MaxSuggested}

SuggestDedupStrategy ==
  /\ Ready
  /\ \E words \in SuggestLists :
       call' = [op |-> "suggest_dedup_strategy", words |-> words,
                result |-> suggest_dedup_strategy(words)]
  /\ UNCHANGED db

NextSuggest == SuggestDedupStrategy

SpecSuggest == InitDedup /\ [][NextSuggest]_vars

\* the number of words a strategy removes from the words of the call
Removed(lists) == Len(call.words) - Len(only(lists))

\* C24: suggest_dedup_strategy returns 'exact' when exact dedup removes
\* more than 20% of the input, otherwise 'case_insensitive' when
\* case-insensitive dedup removes more than 10%, otherwise 'similarity' when
\* similarity dedup removes more than 5%, otherwise 'exact'; for the empty
\* list it returns 'exact'
C24_SuggestedStrategy ==
  call.op = "suggest_dedup_strategy" =>
    call.result =
      IF Len(call.words) = 0 THEN "exact"
      ELSE IF 100 * Removed(exact_duplicate(call.words))
                > 20 * Len(call.words)
      THEN "exact"
      ELSE IF 100 * Removed(case_insensitive_duplicate(call.words))
                > 10 * Len(call.words)
      THEN "case_insensitive"
      ELSE IF 100 * Removed(similarity_duplicate(call.words,
                     [has |-> FALSE, val |-> [num |-> 0, den |-> 1]]))
                > 5 * Len(call.words)
      THEN "similarity"
      ELSE "exact"

\* exact dedup removes exactly 20% of five words and case-insensitive dedup
\* more than 10%
C24_Witness ==
  /\ call.op = "suggest_dedup_strategy"
  /\ call.words = <<<<"a">>, <<"a">>, <<"A">>, <<"a", "b">>,
                    <<"a", "b", "c">>>>
  /\ call.result = "case_insensitive"

(***************************************************************************)
(* Date areas: generate_date_range                                         *)
(***************************************************************************)

\* the last year of a date area
MaxYear == 2003

Years == 1999..MaxYear

\* the formats of the method, and one it does not know
DateFormats == {"YYYY", "YY", "MM", "DD", "YYYYMMDD", "MMDD", "YYMM"}

\* {'area_c': {'type': 'date', 'data': {...}}, 'areas_enabled': ['c']}
DateOnly(start_year, end_year, format) ==
  [area_a |-> AbsentArea, area_b |-> AbsentArea,
   area_c |-> DateArea(start_year, end_year, format), connector |-> <<"_">>,
   areas_enabled |-> <<"c">>]

\* the area data of a date area alone: lines 181-187 and 16-72
GenerateDateRange ==
  /\ Ready
  /\ \E start_year \in Years : \E end_year \in Years :
     \E date_format \in DateFormats :
     \E data \in AreaDataC(DateOnly(start_year, end_year, date_format)) :
       call' = [op |-> "generate_date_range", start_year |-> start_year,
                end_year |-> end_year, date_format |-> date_format,
                result |-> data.val]
  /\ UNCHANGED db

NextDate == GenerateDateRange

SpecDate == InitFuzz /\ [][NextDate]_vars

\* the days of month m in a year that is not a leap year
NonLeapDays(m) ==
  IF m = 2 THEN 28 ELSE IF m \in {4, 6, 9, 11} THEN 30 ELSE 31

\* C25: a date area with format MMDD resolves to exactly the valid (month,
\* day) pairs of a non-leap year, each as a 4-digit MMDD string: 365
\* strings, without '0229', whatever the start and end years
C25_MMDDNonLeap ==
  (call.op = "generate_date_range" /\ call.date_format = "MMDD") =>
    /\ Len(call.result) = 365
    /\ ~InList(<<"0", "2", "2", "9">>, call.result)
    /\ Range(call.result) =
         UNION {{FormatInt(m, 2) \o FormatInt(d, 2) : d \in 1..NonLeapDays(m)} :
                m \in 1..12}

\* the same for the leap year 2000 that the code validates against: 366
\* strings of 4 digits, '0229' among them, whatever the start and end years
MMDDOfLeapYear ==
  (call.op = "generate_date_range" /\ call.date_format = "MMDD") =>
    /\ Len(call.result) = 366
    /\ InList(<<"0", "2", "2", "9">>, call.result)
    /\ \A i \in 1..Len(call.result) :
         /\ Len(call.result[i]) = 4
         /\ \A j \in 1..4 : call.result[i][j] \in DigitSet
    /\ \A i, j \in 1..Len(call.result) :
         call.result[i] = call.result[j] => i = j

(***************************************************************************)
(* Further properties of the fuzzing generator                             *)
(***************************************************************************)

\* params.get(name, []) for the dict of parse_qs
ValuesOf(params, name) ==
  IF \E i \in 1..Len(params) : params[i].name = name
  THEN params[CHOOSE i \in 1..Len(params) : params[i].name = name].values
  ELSE <<>>

ParamNames(params) == {params[i].name : i \in 1..Len(params)}

\* new is old with exactly one parameter replaced, extended or added
OneParameterChanged(old, new) ==
  \E name \in ParamNames(new) :
    /\ ValuesOf(new, name) # ValuesOf(old, name)
    /\ \A other \in (ParamNames(old) \cup ParamNames(new)) \ {name} :
         ValuesOf(new, other) = ValuesOf(old, other)

\* variant has the scheme, authority, path, params and fragment of seed
SameFrame(seed, variant) ==
  /\ variant.ok
  /\ variant.scheme = seed.scheme
  /\ variant.netloc = seed.netloc
  /\ variant.path = seed.path
  /\ variant.params = seed.params
  /\ variant.fragment = seed.fragment

\* the frame and query conditions for the result of the recorded call
InjectionKeepsFrame ==
  IF ~urlparse(call.url).ok \/ Len(urlparse(call.url).query) = 0
  THEN call.result = {call.url}
  ELSE \A v \in call.result \ {call.url} :
         /\ SameFrame(urlparse(call.url), urlparse(v))
         /\ OneParameterChanged(parse_qs(urlparse(call.url).query),
                                parse_qs(urlparse(v).query))

\* C26: add_parameter_injection returns only the seed when the seed has no
\* query string; otherwise every returned URL has the scheme, authority,
\* path and fragment of the seed and differs from it only in its query
\* string, where exactly one parameter is replaced, extended or added and
\* every other parameter keeps its name and value
C26_InjectionKeepsFrame ==
  call.op = "add_parameter_injection" => InjectionKeepsFrame

\* the same for the seeds that urlunparse(urlparse(seed)) reads back with
\* the same components
InjectionKeepsFrameOfStableSeeds ==
  (/\ call.op = "add_parameter_injection"
   /\ urlparse(call.url).ok
   /\ SameFrame(urlparse(call.url), urlparse(urlunparse(urlparse(call.url)))))
  => InjectionKeepsFrame

\* the rules of the configuration that are selected: all of them when no
\* selection is given
SelectedRulesOf(config) ==
  IF config.selected_replacement_rules.has
  THEN SelectRules(config.replacement_rules,
                   config.selected_replacement_rules.val)
  ELSE config.replacement_rules

\* C27: with position swap enabled and replacement rules supplied, the
\* position-swapped variants are themselves token-replaced with the selected
\* rules: the result of generate_fuzzing_variants holds the candidates that
\* are both swapped and replaced
C27_SwappedVariantsReplaced ==
  (/\ IsGenerate
   /\ ~call.raised
   /\ call.config.position_swap
   /\ Len(call.config.replacement_rules) > 0
   /\ ~call.config.max_results.has
   /\ Len(extract_path_segments(call.target)) >= 2) =>
    \A swapped \in fixed_swaps(call.target,
                               extract_path_segments(call.target)) :
      replace_path_segments(swapped, SelectedRulesOf(call.config))
        \subseteq BagToSet(call.result)

\* "/v1/api/user": "/api/v2/user" with two segments transposed and 'v2'
\* replaced by 'v1'
SwappedAndReplaced ==
  <<"/", "v", "1", "/", "a", "p", "i", "/", "u", "s", "e", "r">>

\* the result for "/api/v2/user" holds swapped-only and replaced-only
\* candidates and no candidate that is both
OnlySwappedOrReplaced ==
  (/\ IsGenerate
   /\ call.target = ApiV2User
   /\ call.config.replacement_rules = TwoRules
   /\ call.config.position_swap
   /\ ~call.config.max_results.has) =>
    /\ BagIn(<<"/", "v", "2", "/", "a", "p", "i", "/", "u", "s", "e", "r">>,
             call.result)
    /\ BagIn(<<"/", "a", "p", "i", "/", "v", "1", "/", "u", "s", "e", "r">>,
             call.result)
    /\ ~BagIn(SwappedAndReplaced, call.result)

(***************************************************************************)
(* Path traversal under a configuration that carries a depth and custom    *)
(* payloads (src/gui/fuzzing_widget.py, get_current_config)                *)
(***************************************************************************)

\* config['traversal_max_depth']: absent, or an integer up to MaxDepth
TraversalDepthOptions ==
  {[has |-> FALSE, val |-> 0]}
  \cup {[has |-> TRUE, val |-> d] : d \in 1..MaxDepth}

\* config['custom_traversal_payloads']: absent, ['..;/'] or ['x/', '../']
CustomPayloadOptions ==
  {[has |-> FALSE, val |-> <<>>],
   [has |-> TRUE, val |-> <<<<".", ".", ";", "/">>>>],
   [has |-> TRUE, val |-> <<<<"x", "/">>, <<".", ".", "/">>>>]}

TraversalTargets == ShortSeeds \cup {ApiV2User, ExampleUrlNoQuery}

\* the configurations of the widget with path traversal as the only family
TraversalConfigs ==
  {[replacement_rules |-> <<>>,
    selected_replacement_rules |-> [has |-> FALSE, val |-> {}],
    position_swap |-> FALSE,
    param_injection |-> FALSE,
    path_traversal |-> on,
    traversal_max_depth |-> depth,
    custom_traversal_payloads |-> payloads,
    max_results |-> [has |-> FALSE, val |-> 0]] :
   on \in BOOLEAN, depth \in TraversalDepthOptions,
   payloads \in CustomPayloadOptions}

GenerateTraversalVariants ==
  /\ Ready
  /\ \E target \in TraversalTargets : \E config \in TraversalConfigs :
       \E outcome \in generate_fuzzing_variants(target, config) :
         call' = [op |-> "generate_fuzzing_variants", target |-> target,
                  config |-> config, raised |-> outcome.raised,
                  result |-> outcome.list]
  /\ UNCHANGED db

NextTraversal == GenerateTraversalVariants

SpecTraversal == InitFuzz /\ [][NextTraversal]_vars

\* the payload list the configuration chooses
ChosenPayloads(config) ==
  IF config.custom_traversal_payloads.has
  THEN config.custom_traversal_payloads.val ELSE path_traversal_payloads

\* the depth the configuration chooses
ChosenDepth(config) ==
  IF config.traversal_max_depth.has THEN config.traversal_max_depth.val
  ELSE DefaultMaxDepth

\* the seed, each payload of the list repeated d times in front of it for
\* d = 1..depth, and each payload inserted in front of a segment
TraversalOf(target, payloads, depth) ==
  {target}
  \cup {<<"/">> \o Repeat(payloads[p], d) \o LStrip(target, {"/"}) :
        p \in 1..Len(payloads), d \in 1..depth}
  \cup {PathOf(InsertAt(extract_path_segments(target), i,
                        RStrip(payloads[p], {"/", "\\"}))) :
        p \in 1..Len(payloads),
        i \in 1..Len(extract_path_segments(target))}

\* C28: path traversal in generate_fuzzing_variants takes its payloads from
\* the custom payload list of the configuration when one is given, from the
\* default list otherwise, and prepends each payload repeated d times for
\* exactly the depths d = 1..traversal_max_depth, plus one payload inserted
\* at each segment boundary: no variant uses a larger depth or a payload
\* outside the chosen list
C28_TraversalFollowsConfig ==
  (IsGenerate /\ call.config.path_traversal) =>
    BagToSet(call.result) =
      TraversalOf(call.target, ChosenPayloads(call.config),
                  ChosenDepth(call.config))

\* the same without custom payloads and with the default depth, given or not
TraversalWithDefaults ==
  (/\ IsGenerate
   /\ call.config.path_traversal
   /\ ~call.config.custom_traversal_payloads.has
   /\ ChosenDepth(call.config) = DefaultMaxDepth) =>
    BagToSet(call.result) =
      TraversalOf(call.target, path_traversal_payloads, DefaultMaxDepth)

\* ---------------------------------------------------------------------
\* swap_path_positions: the returned paths are transpositions of the seed

\* the '/'-delimited segments a returned path spells after its leading '/'
SegmentsSpelled(text) == Split(Tail(text), "/")

\* the multiset of the members of a list
SegmentBag(segments) ==
  [x \in Range(segments) |->
     Cardinality({i \in DOMAIN segments : segments[i] = x})]

\* other is the list segments with exactly the positions i and j exchanged
IsTransposition(segments, other, i, j) ==
  /\ Len(other) = Len(segments)
  /\ other[i] = segments[j]
  /\ other[j] = segments[i]
  /\ \A k \in DOMAIN segments : k \notin {i, j} => other[k] = segments[k]

\* text starts with '/' and spells a transposition of two of the segments
SpellsTransposition(segments, text) ==
  /\ Len(text) > 0
  /\ text[1] = "/"
  /\ \E i \in DOMAIN segments : \E j \in DOMAIN segments :
       i < j /\ IsTransposition(segments, SegmentsSpelled(text), i, j)

\* the paths that spell the exchange of the positions i and j
SpelledSwaps(result, segments, i, j) ==
  {text \in result : /\ Len(text) > 0
                     /\ text[1] = "/"
                     /\ IsTransposition(segments, SegmentsSpelled(text), i, j)}

\* the returned paths that are neither the seed, an adjacent swap nor the
\* first-last swap
FurtherSwaps(path, result, segments) ==
  {text \in result \ {path} :
     /\ \A i \in 1..(Len(segments) - 1) :
          text \notin SpelledSwaps(result, segments, i, i + 1)
     /\ text \notin SpelledSwaps(result, segments, 1, Len(segments))}

DEFAULT_DEDUP_STRATEGY == "exact"

\* the rows of the table kept by the test, in table order
RowsWhere(rows, Test(_)) == SelectSeq(rows, Test)

\* SELECT id, word FROM words WHERE dictionary_id = ?
words_data(rows, dictionary_id) ==
  LET of_dictionary(row) == row.dictionary_id = dictionary_id
  IN RowsWhere(rows, of_dictionary)

\* {row['word']: row['id'] for row in words_data}[word]: a later row with
\* the same word replaces the id of an earlier one
word_id_map(data, word) ==
  data[CHOOSE i \in DOMAIN data :
         /\ data[i].word = word
         /\ \A j \in DOMAIN data : data[j].word = word => j <= i].id

\* self.strategies[strategy](words), exact_duplicate for an unknown name
unique_words(words, strategy) ==
  IF strategy = "case_insensitive" THEN case_insensitive_duplicate(words)
  ELSE exact_duplicate(words)

\* lines 297-305: the ids collected for the words from position i on, with
\* the words of unique_word_set not yet met
RECURSIVE words_to_delete(_, _, _)
words_to_delete(data, i, unique_word_set) ==
  IF i > Len(data) THEN <<>>
  ELSE IF data[i].word \notin unique_word_set
       THEN <<word_id_map(data, data[i].word)>>
            \o words_to_delete(data, i + 1, unique_word_set)
       ELSE words_to_delete(data, i + 1, unique_word_set \ {data[i].word})

\* DELETE FROM words WHERE id IN (...)
rows_after_delete(rows, ids) ==
  LET kept(row) == row.id \notin Range(ids)
  IN RowsWhere(rows, kept)

\* remove_duplicates_from_dictionary(dictionary_id, strategy) with the list
\* unique the strategy returned: the table left and the number returned
removed_with(rows, dictionary_id, unique) ==
  [rows |-> rows_after_delete(rows,
              words_to_delete(words_data(rows, dictionary_id), 1,
                              Range(unique))),
   result |-> Len(rows)
              - Len(rows_after_delete(rows,
                  words_to_delete(words_data(rows, dictionary_id), 1,
                                  Range(unique))))]

\* every outcome of remove_duplicates_from_dictionary on the table
remove_duplicates_from_dictionary(rows, dictionary_id, strategy) ==
  IF Len(words_data(rows, dictionary_id)) = 0
  THEN {[rows |-> rows, result |-> 0]}
  ELSE {removed_with(rows, dictionary_id, unique) :
        unique \in unique_words(
          [i \in DOMAIN words_data(rows, dictionary_id) |->
             words_data(rows, dictionary_id)[i].word],
          IF strategy = "None" THEN DEFAULT_DEDUP_STRATEGY ELSE strategy)}

MaxRows == 5

\* the words stored: 'a' and 'A'
StoredWords == {<<"a">>, <<"A">>}

DictionaryIds == {1, 2}

\* the words tables of up to MaxRows rows in two dictionaries, the ids
\* given by AUTOINCREMENT
StoredTables ==
  UNION {{[i \in 1..n |-> [id |-> i, word |-> cells[i][1],
                           dictionary_id |-> cells[i][2]]] :
          cells \in [1..n -> StoredWords \X DictionaryIds]} :
         n \in 0..MaxRows}

StrategyNames == {"None", "exact", "case_insensitive", "unknown"}

InitRemove ==
  /\ db \in {[words |-> t] : t \in StoredTables}
  /\ call = [op |-> "init"]

\* deduplicator.remove_duplicates_from_dictionary(dictionary_id, strategy)
RemoveDuplicatesFromDictionary ==
  /\ Ready
  /\ \E dictionary_id \in DictionaryIds \cup {3} :
     \E strategy \in StrategyNames :
     \E outcome \in remove_duplicates_from_dictionary(db.words,
                                                     dictionary_id, strategy) :
       /\ db' = [db EXCEPT !.words = outcome.rows]
       /\ call' = [op |-> "remove_duplicates_from_dictionary",
                   dictionary_id |-> dictionary_id, strategy |-> strategy,
                   before |-> db.words, result |-> outcome.result]

NextRemove == RemoveDuplicatesFromDictionary

SpecRemove == InitRemove /\ [][NextRemove]_vars

\* the number of rows of the table that hold the word in the dictionary
Copies(rows, dictionary_id, word) ==
  Cardinality({i \in DOMAIN rows : /\ rows[i].dictionary_id = dictionary_id
                                   /\ rows[i].word = word})

\* the rows of the table outside the dictionary
RowsElsewhere(rows, dictionary_id) ==
  LET elsewhere(row) == row.dictionary_id # dictionary_id
  IN RowsWhere(rows, elsewhere)

\* C30: after remove_duplicates_from_dictionary(d, 'exact') the dictionary
\* holds exactly one row for each distinct word it held before, whatever
\* number of times a word was stored: no distinct word is lost and no
\* exact duplicate remains; the returned number is the number of rows
\* deleted and the rows of other dictionaries are untouched.
C30_OneRowPerWord ==
  (call.op = "remove_duplicates_from_dictionary" /\ call.strategy = "exact")
  =>
    /\ \A word \in StoredWords :
         Copies(db.words, call.dictionary_id, word)
           = IF Copies(call.before, call.dictionary_id, word) > 0
             THEN 1 ELSE 0
    /\ call.result = Len(call.before) - Len(db.words)
    /\ RowsElsewhere(db.words, call.dictionary_id)
         = RowsElsewhere(call.before, call.dictionary_id)

\* What the code does: no word is lost, the first row of every word stays,
\* a word stored once or twice is left on one row and a word stored more
\* often loses only its last row; the number returned is the number of
\* rows deleted and the other dictionaries are untouched.
OnlyLastCopyRemoved ==
  (call.op = "remove_duplicates_from_dictionary" /\ call.strategy = "exact")
  =>
    /\ \A word \in StoredWords :
         Copies(db.words, call.dictionary_id, word)
           = IF Copies(call.before, call.dictionary_id, word) >= 2
             THEN Copies(call.before, call.dictionary_id, word) - 1
             ELSE Copies(call.before, call.dictionary_id, word)
    /\ call.result = Len(call.before) - Len(db.words)
    /\ RowsElsewhere(db.words, call.dictionary_id)
         = RowsElsewhere(call.before, call.dictionary_id)

\* a word stored three times in the dictionary has been deduplicated
StoredThreeTimes ==
  /\ call.op = "remove_duplicates_from_dictionary"
  /\ call.strategy = "exact"
  /\ \E word \in StoredWords :
       Copies(call.before, call.dictionary_id, word) >= 3

====
